---- MODULE Spec2Model ----
(***************************************************************************)
(* Model of the Soustack demo's recipe core: the quantity primitives, the  *)
(* ingredient scaler and the servings utilities of src/lib/scaling, and    *)
(* the recipe normalizer of src/lib/normalize.                             *)
(*                                                                         *)
(* JavaScript values are records tagged by the field k.  A number is an    *)
(* exact rational n/d in lowest terms with d > 0, or one of the specials   *)
(* NaN, +Infinity, -Infinity.  A string is a sequence of one-character     *)
(* strings, so that trimming, matching and joining are computed.           *)
(***************************************************************************)
EXTENDS Integers, Sequences, FiniteSets, Bags, TLC

\* pc, fn, arg, ret: one call of a function and its result.
\* targetState: the React state targetServings of useRecipeScaling and of
\* RecipeCard (targetServings itself names a parameter of the library).
\* recipeStore, inflight, now: the recipe store of api/store/route.ts, the
\* POST requests whose body is being read, and the clock.
VARIABLES pc, fn, arg, ret, targetState, recipeStore, inflight, now

vars == <<pc, fn, arg, ret, targetState, recipeStore, inflight, now>>

\* The state that the library functions neither read nor write.
appVars == <<targetState, recipeStore, inflight, now>>

(***************************************************************************)
(* Bounds of the model.                                                    *)
(***************************************************************************)
MaxStrLen == 3
MaxNum == 12
MaxWhole == 2
MaxQty == 5
MaxServings == 4
MaxValue == 24
MaxItems == 2

(***************************************************************************)
(* JavaScript values.                                                      *)
(***************************************************************************)
Undefined == [k |-> "undefined"]
Null == [k |-> "null"]
NaN == [k |-> "NaN"]
Inf(s) == [k |-> "inf", s |-> s]
Str(s) == [k |-> "str", s |-> s]
Bool(b) == [k |-> "bool", b |-> b]

Abs(i) == IF i < 0 THEN -i ELSE i

RECURSIVE GCD(_, _)
GCD(a, b) == IF b = 0 THEN a ELSE GCD(b, a % b)

\* The rational n/d (d # 0) in lowest terms with a positive denominator.
Rat(n, d) ==
  LET g == GCD(Abs(n), Abs(d))
      s == IF d < 0 THEN -1 ELSE 1
  IN  [k |-> "num", n |-> (s * n) \div g, d |-> (s * d) \div g]

IntNum(i) == Rat(i, 1)

IsNum(v) == v.k = "num"
IsNaN(v) == v.k = "NaN"
IsInf(v) == v.k = "inf"
IsFinite(v) == v.k = "num"

Sign(v) == IF IsInf(v) THEN v.s
           ELSE IF v.n < 0 THEN -1 ELSE IF v.n = 0 THEN 0 ELSE 1

\* a < b, a <= b; every comparison with NaN is false.
Lt(a, b) ==
  IF IsNaN(a) \/ IsNaN(b) THEN FALSE
  ELSE IF IsInf(a) THEN a.s = -1 /\ ~(IsInf(b) /\ b.s = -1)
  ELSE IF IsInf(b) THEN b.s = 1
  ELSE a.n * b.d < b.n * a.d

Le(a, b) ==
  IF IsNaN(a) \/ IsNaN(b) THEN FALSE ELSE (a = b \/ Lt(a, b))

\* a === b on numbers (NaN is not equal to itself).
NumEq(a, b) == ~IsNaN(a) /\ ~IsNaN(b) /\ a = b

Add(a, b) ==
  IF IsNaN(a) \/ IsNaN(b) THEN NaN
  ELSE IF IsInf(a) THEN (IF IsInf(b) /\ b.s # a.s THEN NaN ELSE a)
  ELSE IF IsInf(b) THEN b
  ELSE Rat(a.n * b.d + b.n * a.d, a.d * b.d)

Neg(a) ==
  IF IsNaN(a) THEN NaN
  ELSE IF IsInf(a) THEN Inf(-a.s)
  ELSE Rat(-a.n, a.d)

Sub(a, b) == Add(a, Neg(b))

Mul(a, b) ==
  IF IsNaN(a) \/ IsNaN(b) THEN NaN
  ELSE IF IsInf(a) \/ IsInf(b)
       THEN (IF Sign(a) * Sign(b) = 0 THEN NaN ELSE Inf(Sign(a) * Sign(b)))
  ELSE Rat(a.n * b.n, a.d * b.d)

\* a / b as JavaScript divides: x/0 is an infinity, 0/0 is NaN.
Div(a, b) ==
  IF IsNaN(a) \/ IsNaN(b) THEN NaN
  ELSE IF IsInf(a) THEN (IF IsInf(b) THEN NaN
                         ELSE Inf(a.s * (IF Sign(b) < 0 THEN -1 ELSE 1)))
  ELSE IF IsInf(b) THEN IntNum(0)
  ELSE IF b.n = 0 THEN (IF a.n = 0 THEN NaN ELSE Inf(Sign(a)))
  ELSE Rat(a.n * b.d, a.d * b.n)

AbsNum(a) == IF IsNum(a) /\ a.n < 0 THEN Neg(a)
             ELSE IF IsInf(a) THEN Inf(1) ELSE a

\* Math.floor and Math.round (halves round towards +Infinity).
MathFloor(a) == IF IsNum(a) THEN IntNum(a.n \div a.d) ELSE a
MathRound(a) == IF IsNum(a) THEN IntNum((2 * a.n + a.d) \div (2 * a.d)) ELSE a
MathMax(a, b) == IF IsNaN(a) \/ IsNaN(b) THEN NaN ELSE IF Lt(a, b) THEN b ELSE a

(***************************************************************************)
(* Strings.                                                                *)
(***************************************************************************)
DigitChars == <<"0", "1", "2", "3", "4", "5", "6", "7", "8", "9">>
IsDigit(c) == \E i \in 1..10 : DigitChars[i] = c
DigitVal(c) == (CHOOSE i \in 1..10 : DigitChars[i] = c) - 1
IsSpace(c) == c \in {" ", "\t"}

RECURSIVE DigitsValue(_)
DigitsValue(s) ==
  IF s = <<>> THEN 0
  ELSE 10 * DigitsValue(SubSeq(s, 1, Len(s) - 1)) + DigitVal(s[Len(s)])

AllDigits(s) == Len(s) > 0 /\ \A i \in 1..Len(s) : IsDigit(s[i])

\* Number.prototype.toString for an integer value.
RECURSIVE NatToStr(_)
NatToStr(i) ==
  IF i < 10 THEN <<DigitChars[i + 1]>>
  ELSE NatToStr(i \div 10) \o <<DigitChars[(i % 10) + 1]>>

IntToStr(i) == IF i < 0 THEN <<"-">> \o NatToStr(-i) ELSE NatToStr(i)

\* String.prototype.trim
RECURSIVE TrimLeft(_)
TrimLeft(s) ==
  IF s # <<>> /\ IsSpace(s[1]) THEN TrimLeft(Tail(s)) ELSE s

RECURSIVE TrimRight(_)
TrimRight(s) ==
  IF s # <<>> /\ IsSpace(s[Len(s)]) THEN TrimRight(SubSeq(s, 1, Len(s) - 1))
  ELSE s

Trim(s) == TrimRight(TrimLeft(s))

\* Array.prototype.join(' ') over an array of strings.
RECURSIVE Join(_)
Join(parts) ==
  IF parts = <<>> THEN <<>>
  ELSE IF Len(parts) = 1 THEN parts[1]
  ELSE parts[1] \o <<" ">> \o Join(Tail(parts))

\* String.prototype.toLowerCase
UpperChars == <<"A", "B", "C", "D", "E", "F", "G", "H", "I", "J", "K", "L", "M",
                "N", "O", "P", "Q", "R", "S", "T", "U", "V", "W", "X", "Y", "Z">>
LowerChars == <<"a", "b", "c", "d", "e", "f", "g", "h", "i", "j", "k", "l", "m",
                "n", "o", "p", "q", "r", "s", "t", "u", "v", "w", "x", "y", "z">>
LowerChar(c) ==
  IF \E i \in 1..26 : UpperChars[i] = c
  THEN LowerChars[CHOOSE i \in 1..26 : UpperChars[i] = c]
  ELSE c
toLowerCase(s) == [i \in 1..Len(s) |-> LowerChar(s[i])]

\* Length of the longest prefix of s made of decimal digits / of white space.
RECURSIVE DigitRun(_)
DigitRun(s) == IF s # <<>> /\ IsDigit(s[1]) THEN 1 + DigitRun(Tail(s)) ELSE 0

RECURSIVE SpaceRun(_)
SpaceRun(s) == IF s # <<>> /\ IsSpace(s[1]) THEN 1 + SpaceRun(Tail(s)) ELSE 0

Drop(s, n) == SubSeq(s, n + 1, Len(s))
Take(s, n) == SubSeq(s, 1, n)

RECURSIVE Pow10(_)
Pow10(e) == IF e = 0 THEN 1 ELSE 10 * Pow10(e - 1)


(***************************************************************************)
(* Quantity primitives (src/lib/scaling/scaling.ts).                       *)
(***************************************************************************)
\* str.match(/^(\d+)\/(\d+)$/)
FractionMatch(s) ==
  LET p == DigitRun(s)
  IN  p > 0 /\ Len(s) > p + 1 /\ s[p + 1] = "/" /\ AllDigits(Drop(s, p + 1))

FractionNum(s) == Take(s, DigitRun(s))
FractionDenom(s) == Drop(s, DigitRun(s) + 1)

\* str.match(/^(\d+)\s+(\d+)\/(\d+)$/)
MixedMatch(s) ==
  LET p == DigitRun(s)
      w == SpaceRun(Drop(s, p))
  IN  p > 0 /\ w > 0 /\ FractionMatch(Drop(s, p + w))

MixedWhole(s) == Take(s, DigitRun(s))
MixedFraction(s) == Drop(s, DigitRun(s) + SpaceRun(Drop(s, DigitRun(s))))

\* parseInt(digits, 10) on a match of \d+
parseInt(s) == IntNum(DigitsValue(s))

\* parseFloat: the value of the longest prefix (after leading white space)
\* that is a decimal literal, NaN when there is none.  The literal is an
\* optional sign, then "Infinity" or digits with an optional fraction and an
\* optional exponent.
S_Infinity == <<"I", "n", "f", "i", "n", "i", "t", "y">>

ExponentDigits(d, sg) ==
  IF DigitRun(d) > 0 THEN sg * DigitsValue(Take(d, DigitRun(d))) ELSE 0

ExponentSigned(afterE) ==
  IF afterE # <<>> /\ afterE[1] = "-" THEN ExponentDigits(Tail(afterE), -1)
  ELSE IF afterE # <<>> /\ afterE[1] = "+" THEN ExponentDigits(Tail(afterE), 1)
  ELSE ExponentDigits(afterE, 1)

ExponentPart(rest) ==
  IF rest # <<>> /\ rest[1] \in {"e", "E"} THEN ExponentSigned(Tail(rest)) ELSE 0

ScaleByExponent(m, e) ==
  IF e >= 0 THEN Mul(m, IntNum(Pow10(e))) ELSE Div(m, IntNum(Pow10(0 - e)))

\* body holds i integer digits, then (when dot) a point and f fraction digits.
DecimalValue(body, sgn, i, dot, f) ==
  IF i = 0 /\ f = 0 THEN NaN
  ELSE ScaleByExponent(
         Rat(sgn * (DigitsValue(Take(body, i)) * Pow10(f)
                      + DigitsValue(SubSeq(body, i + 2, i + 1 + f))), Pow10(f)),
         ExponentPart(Drop(body, i + (IF dot THEN 1 + f ELSE 0))))

DecimalLiteral(body, sgn, i) ==
  IF Len(body) > i /\ body[i + 1] = "."
  THEN DecimalValue(body, sgn, i, TRUE, DigitRun(Drop(body, i + 1)))
  ELSE DecimalValue(body, sgn, i, FALSE, 0)

UnsignedLiteral(body, sgn) ==
  IF Len(body) >= 8 /\ Take(body, 8) = S_Infinity THEN Inf(sgn)
  ELSE DecimalLiteral(body, sgn, DigitRun(body))

SignedLiteral(s0) ==
  IF s0 # <<>> /\ s0[1] = "-" THEN UnsignedLiteral(Tail(s0), -1)
  ELSE IF s0 # <<>> /\ s0[1] = "+" THEN UnsignedLiteral(Tail(s0), 1)
  ELSE UnsignedLiteral(s0, 1)

parseFloat(str) == SignedLiteral(TrimLeft(str))

\* const parsed = parseFloat(str); return isNaN(parsed) ? null : parsed
NullIfNaN(parsed) == IF IsNaN(parsed) THEN Null ELSE parsed

\* return denom !== 0 ? num / denom : null, without the test of denom.
SimpleFraction_NoZeroGuard(num, denom) == Div(num, denom)

\* return denom !== 0 ? num / denom : null
SimpleFraction(num, denom) ==
  IF denom # IntNum(0) THEN Div(num, denom) ELSE Null

\* return denom !== 0 ? whole + num / denom : null
MixedFractionValue(whole, num, denom) ==
  IF denom # IntNum(0) THEN Add(whole, Div(num, denom)) ELSE Null

\* parseQuantity on the trimmed text of a string quantity.
parseQuantityText(str) ==
  IF FractionMatch(str)
  THEN SimpleFraction(parseInt(FractionNum(str)), parseInt(FractionDenom(str)))
  ELSE IF MixedMatch(str)
  THEN MixedFractionValue(parseInt(MixedWhole(str)),
                          parseInt(FractionNum(MixedFraction(str))),
                          parseInt(FractionDenom(MixedFraction(str))))
  ELSE NullIfNaN(parseFloat(str))

parseQuantity(qty) ==
  IF qty = Undefined \/ qty = Null \/ qty = Str(<<>>) THEN Null
  ELSE IF qty.k # "str" THEN qty
  ELSE parseQuantityText(Trim(qty.s))

\* The table of common fractions of formatQuantity, in its order.  A fraction
\* glyph is one character of the output, written here "<1/8>", "<1/4>", ...
fractions ==
  << [v |-> Rat(125, 1000), g |-> "<1/8>"],
     [v |-> Rat(25, 100),   g |-> "<1/4>"],
     [v |-> Rat(333, 1000), g |-> "<1/3>"],
     [v |-> Rat(375, 1000), g |-> "<3/8>"],
     [v |-> Rat(5, 10),     g |-> "<1/2>"],
     [v |-> Rat(625, 1000), g |-> "<5/8>"],
     [v |-> Rat(666, 1000), g |-> "<2/3>"],
     [v |-> Rat(75, 100),   g |-> "<3/4>"],
     [v |-> Rat(875, 1000), g |-> "<7/8>"] >>

\* A tolerance of 0.05 in place of 0.02.
FractionTolerance_Wide == Rat(5, 100)

FractionTolerance == Rat(2, 100)

\* String(value) for a number that is an integer or not finite.
NumToStr(v) ==
  IF IsNaN(v) THEN <<"N", "a", "N">>
  ELSE IF IsInf(v) THEN (IF v.s < 0 THEN <<"-">> ELSE <<>>) \o S_Infinity
  ELSE IntToStr(v.n)

\* value.toFixed(1): the nearest multiple of 1/10, the larger on a tie.
toFixed1(value) ==
  IF ~IsNum(value) THEN NumToStr(value)
  ELSE LET x == AbsNum(value)
           n == (20 * x.n + x.d) \div (2 * x.d)
       IN  (IF value.n < 0 THEN <<"-">> ELSE <<>>)
             \o NatToStr(n \div 10) \o <<".">> \o NatToStr(n % 10)

\* s.replace(/\.0$/, '')
StripDotZero(s) ==
  IF Len(s) >= 2 /\ s[Len(s) - 1] = "." /\ s[Len(s)] = "0"
  THEN Take(s, Len(s) - 2) ELSE s

formatQuantity(value) ==
  LET whole == MathFloor(value)
      frac == Sub(value, whole)
      hits == {i \in 1..Len(fractions) :
                 Lt(AbsNum(Sub(frac, fractions[i].v)), FractionTolerance)}
  IN  IF hits # {}
      THEN LET i == CHOOSE j \in hits : \A h \in hits : j <= h
           IN  IF whole = IntNum(0) THEN <<fractions[i].g>>
               ELSE NumToStr(whole) \o <<fractions[i].g>>
      ELSE IF Lt(value, IntNum(10)) /\ frac # IntNum(0)
      THEN StripDotZero(toFixed1(value))
      ELSE NumToStr(MathRound(value))

QuarterUnits ==
  {<<"t", "s", "p">>,
   <<"t", "e", "a", "s", "p", "o", "o", "n">>,
   <<"t", "e", "a", "s", "p", "o", "o", "n", "s">>,
   <<"t", "b", "s", "p">>,
   <<"t", "a", "b", "l", "e", "s", "p", "o", "o", "n">>,
   <<"t", "a", "b", "l", "e", "s", "p", "o", "o", "n", "s">>}

CupUnits ==
  {<<"c", "u", "p">>,
   <<"c", "u", "p", "s">>,
   <<"c">>}

OunceUnits ==
  {<<"o", "z">>,
   <<"o", "u", "n", "c", "e">>,
   <<"o", "u", "n", "c", "e", "s">>}

GramUnits ==
  {<<"g">>,
   <<"g", "r", "a", "m">>,
   <<"g", "r", "a", "m", "s">>}

MilliliterUnits ==
  {<<"m", "l">>,
   <<"m", "i", "l", "l", "i", "l", "i", "t", "e", "r">>,
   <<"m", "i", "l", "l", "i", "l", "i", "t", "e", "r", "s">>}

CountUnits ==
  {<<"p", "i", "e", "c", "e">>,
   <<"p", "i", "e", "c", "e", "s">>,
   <<"c", "l", "o", "v", "e">>,
   <<"c", "l", "o", "v", "e", "s">>,
   <<"s", "l", "i", "c", "e">>,
   <<"s", "l", "i", "c", "e", "s">>,
   <<"e", "g", "g">>,
   <<"e", "g", "g", "s">>}

\* roundToSensible comparing the unit as written, without toLowerCase.
roundToSensible_CaseSensitive(value, unit) ==
  IF unit \in QuarterUnits \cup CupUnits
  THEN Div(MathRound(Mul(value, IntNum(4))), IntNum(4))
  ELSE IF unit \in OunceUnits
  THEN Div(MathRound(Mul(value, IntNum(2))), IntNum(2))
  ELSE IF unit \in GramUnits \cup MilliliterUnits
  THEN Mul(MathRound(Div(value, IntNum(5))), IntNum(5))
  ELSE IF unit \in CountUnits
  THEN MathRound(value)
  ELSE Div(MathRound(Mul(value, IntNum(100))), IntNum(100))

\* roundToSensible cutting every value down to a whole number.
roundToSensible_Truncating(value, unit) == MathFloor(value)

roundToSensible(value, unit) ==
  LET unitLower == toLowerCase(unit)
  IN  IF unitLower \in QuarterUnits
      THEN Div(MathRound(Mul(value, IntNum(4))), IntNum(4))
      ELSE IF unitLower \in CupUnits
      THEN Div(MathRound(Mul(value, IntNum(4))), IntNum(4))
      ELSE IF unitLower \in OunceUnits
      THEN Div(MathRound(Mul(value, IntNum(2))), IntNum(2))
      ELSE IF unitLower \in GramUnits
      THEN Mul(MathRound(Div(value, IntNum(5))), IntNum(5))
      ELSE IF unitLower \in MilliliterUnits
      THEN Mul(MathRound(Div(value, IntNum(5))), IntNum(5))
      ELSE IF unitLower \in CountUnits
      THEN MathRound(value)
      ELSE Div(MathRound(Mul(value, IntNum(100))), IntNum(100))


(***************************************************************************)
(* Ingredient scaler and servings utilities (src/lib/scaling/scaling.ts).  *)
(* An ingredient is [name, quantity, unit, scaling]: name a string,        *)
(* quantity and unit JavaScript values, scaling Undefined or [mode |-> v]. *)
(***************************************************************************)
S_proportional == <<"p", "r", "o", "p", "o", "r", "t", "i", "o", "n", "a", "l">>
S_toTaste == <<"t", "o", "T", "a", "s", "t", "e">>
S_fixed == <<"f", "i", "x", "e", "d">>
S_linear == <<"l", "i", "n", "e", "a", "r">>
S_toTasteMark == <<"(", "t", "o", " ", "t", "a", "s", "t", "e", ")">>
S_null == <<"n", "u", "l", "l">>
S_undefined == <<"u", "n", "d", "e", "f", "i", "n", "e", "d">>
S_true == <<"t", "r", "u", "e">>
S_false == <<"f", "a", "l", "s", "e">>
S_object == <<"[", "o", "b", "j", "e", "c", "t", " ", "O", "b", "j", "e", "c", "t", "]">>

\* v is truthy (for the values the model uses).
Truthy(v) ==
  CASE v.k = "undefined" -> FALSE
    [] v.k = "null" -> FALSE
    [] v.k = "str" -> v.s # <<>>
    [] v.k = "num" -> v.n # 0
    [] v.k = "NaN" -> FALSE
    [] v.k = "bool" -> v.b
    [] OTHER -> TRUE

\* ingredient.scaling?.mode
ScalingMode(ingredient) ==
  IF ingredient.scaling = Undefined THEN Undefined ELSE ingredient.scaling.mode

\* The last f decimal digits of n, zero-padded.
RECURSIVE PadDigits(_, _)
PadDigits(n, f) ==
  IF f = 0 THEN <<>> ELSE PadDigits(n \div 10, f - 1) \o <<DigitChars[(n % 10) + 1]>>

\* String(v) for a finite number that is not an integer: its decimal
\* expansion.  The numbers the model converts have an expansion that
\* terminates within 6 places; a longer one is cut at 6 places.
DecimalStr(v) ==
  LET x == AbsNum(v)
      exact == {f \in 1..6 : (x.n * Pow10(f)) % x.d = 0}
      f == IF exact = {} THEN 6 ELSE CHOOSE g \in exact : \A h \in exact : g <= h
      n == (2 * x.n * Pow10(f) + x.d) \div (2 * x.d)
  IN  (IF v.n < 0 THEN <<"-">> ELSE <<>>)
        \o NatToStr(n \div Pow10(f)) \o <<".">> \o PadDigits(n % Pow10(f), f)

\* String(v) for a quantity value.
JsString(v) ==
  CASE v.k = "str" -> v.s
    [] v.k = "null" -> S_null
    [] v.k = "undefined" -> S_undefined
    [] v.k = "bool" -> (IF v.b THEN S_true ELSE S_false)
    [] v.k = "obj" -> S_object
    [] v.k = "num" /\ v.d = 1 -> IntToStr(v.n)
    [] v.k = "num" /\ v.d # 1 -> DecimalStr(v)
    [] OTHER -> NumToStr(v)

\* formatIngredientDisplay leaving the unit out.
formatIngredientDisplay_NoUnit(ingredient) ==
  LET qty == parseQuantity(ingredient.quantity)
      qtyPart == IF ingredient.quantity # Undefined /\ ingredient.quantity # Str(<<>>)
                 THEN (IF qty # Null THEN <<formatQuantity(qty)>>
                       ELSE <<JsString(ingredient.quantity)>>)
                 ELSE <<>>
      tastePart == IF ScalingMode(ingredient) = Str(S_toTaste)
                   THEN <<S_toTasteMark>> ELSE <<>>
  IN  Join(qtyPart \o <<ingredient.name>> \o tastePart)

formatIngredientDisplay(ingredient) ==
  LET qty == parseQuantity(ingredient.quantity)
      qtyPart == IF ingredient.quantity # Undefined /\ ingredient.quantity # Str(<<>>)
                 THEN (IF qty # Null THEN <<formatQuantity(qty)>>
                       ELSE <<JsString(ingredient.quantity)>>)
                 ELSE <<>>
      unitPart == IF Truthy(ingredient.unit) THEN <<ingredient.unit.s>> ELSE <<>>
      tastePart == IF ScalingMode(ingredient) = Str(S_toTaste)
                   THEN <<S_toTasteMark>> ELSE <<>>
  IN  Join(qtyPart \o unitPart \o <<ingredient.name>> \o tastePart)

\* scaleIngredient without the early return for the 'fixed' mode.
scaleIngredient_NoFixed(ingredient, scaleFactor) ==
  LET mode == IF Truthy(ScalingMode(ingredient)) THEN ScalingMode(ingredient)
              ELSE Str(S_proportional)
      originalQty == parseQuantity(ingredient.quantity)
      unit == IF Truthy(ingredient.unit) THEN ingredient.unit.s ELSE <<>>
      scaledQty == roundToSensible(Mul(originalQty, scaleFactor), unit)
      formattedQty == formatQuantity(scaledQty)
      parts == <<formattedQty>> \o (IF unit # <<>> THEN <<unit>> ELSE <<>>)
                 \o <<ingredient.name>>
  IN  IF mode = Str(S_toTaste)
      THEN [display |-> formatIngredientDisplay(ingredient), scaled |-> FALSE]
      ELSE IF originalQty = Null
      THEN [display |-> formatIngredientDisplay(ingredient), scaled |-> FALSE]
      ELSE [display |-> Join(parts), scaled |-> scaleFactor # IntNum(1)]

\* scaleIngredient formatting the product without roundToSensible.
scaleIngredient_NoRounding(ingredient, scaleFactor) ==
  LET mode == IF Truthy(ScalingMode(ingredient)) THEN ScalingMode(ingredient)
              ELSE Str(S_proportional)
      originalQty == parseQuantity(ingredient.quantity)
      unit == IF Truthy(ingredient.unit) THEN ingredient.unit.s ELSE <<>>
      scaledQty == Mul(originalQty, scaleFactor)
      formattedQty == formatQuantity(scaledQty)
      parts == <<formattedQty>> \o (IF unit # <<>> THEN <<unit>> ELSE <<>>)
                 \o <<ingredient.name>>
  IN  IF mode = Str(S_toTaste)
      THEN [display |-> formatIngredientDisplay(ingredient), scaled |-> FALSE]
      ELSE IF mode = Str(S_fixed)
      THEN [display |-> formatIngredientDisplay(ingredient), scaled |-> FALSE]
      ELSE IF originalQty = Null
      THEN [display |-> formatIngredientDisplay(ingredient), scaled |-> FALSE]
      ELSE [display |-> Join(parts), scaled |-> scaleFactor # IntNum(1)]

\* scaleIngredient setting the flag from the factor when the quantity does not parse.
scaleIngredient_FlagOnUnparsed(ingredient, scaleFactor) ==
  LET mode == IF Truthy(ScalingMode(ingredient)) THEN ScalingMode(ingredient)
              ELSE Str(S_proportional)
      originalQty == parseQuantity(ingredient.quantity)
      unit == IF Truthy(ingredient.unit) THEN ingredient.unit.s ELSE <<>>
      scaledQty == roundToSensible(Mul(originalQty, scaleFactor), unit)
      formattedQty == formatQuantity(scaledQty)
      parts == <<formattedQty>> \o (IF unit # <<>> THEN <<unit>> ELSE <<>>)
                 \o <<ingredient.name>>
  IN  IF mode = Str(S_toTaste)
      THEN [display |-> formatIngredientDisplay(ingredient), scaled |-> FALSE]
      ELSE IF mode = Str(S_fixed)
      THEN [display |-> formatIngredientDisplay(ingredient), scaled |-> FALSE]
      ELSE IF originalQty = Null
      THEN [display |-> formatIngredientDisplay(ingredient),
            scaled |-> scaleFactor # IntNum(1)]
      ELSE [display |-> Join(parts), scaled |-> scaleFactor # IntNum(1)]

\* scaleIngredient flagging every multiplied quantity, the factor 1 included.
scaleIngredient_AlwaysScaled(ingredient, scaleFactor) ==
  LET mode == IF Truthy(ScalingMode(ingredient)) THEN ScalingMode(ingredient)
              ELSE Str(S_proportional)
      originalQty == parseQuantity(ingredient.quantity)
      unit == IF Truthy(ingredient.unit) THEN ingredient.unit.s ELSE <<>>
      scaledQty == roundToSensible(Mul(originalQty, scaleFactor), unit)
      formattedQty == formatQuantity(scaledQty)
      parts == <<formattedQty>> \o (IF unit # <<>> THEN <<unit>> ELSE <<>>)
                 \o <<ingredient.name>>
  IN  IF mode = Str(S_toTaste)
      THEN [display |-> formatIngredientDisplay(ingredient), scaled |-> FALSE]
      ELSE IF mode = Str(S_fixed)
      THEN [display |-> formatIngredientDisplay(ingredient), scaled |-> FALSE]
      ELSE IF originalQty = Null
      THEN [display |-> formatIngredientDisplay(ingredient), scaled |-> FALSE]
      ELSE [display |-> Join(parts), scaled |-> TRUE]

scaleIngredient(ingredient, scaleFactor) ==
  LET mode == IF Truthy(ScalingMode(ingredient)) THEN ScalingMode(ingredient)
              ELSE Str(S_proportional)
      originalQty == parseQuantity(ingredient.quantity)
      unit == IF Truthy(ingredient.unit) THEN ingredient.unit.s ELSE <<>>
      scaledQty == roundToSensible(Mul(originalQty, scaleFactor), unit)
      formattedQty == formatQuantity(scaledQty)
      parts == <<formattedQty>> \o (IF unit # <<>> THEN <<unit>> ELSE <<>>)
                 \o <<ingredient.name>>
  IN  IF mode = Str(S_toTaste)
      THEN [display |-> formatIngredientDisplay(ingredient), scaled |-> FALSE]
      ELSE IF mode = Str(S_fixed)
      THEN [display |-> formatIngredientDisplay(ingredient), scaled |-> FALSE]
      ELSE IF originalQty = Null
      THEN [display |-> formatIngredientDisplay(ingredient), scaled |-> FALSE]
      ELSE [display |-> Join(parts), scaled |-> scaleFactor # IntNum(1)]

\* calculateScaleFactor without the guard on a non-positive original.
calculateScaleFactor_NoGuard(originalServings, targetServings) ==
  Div(targetServings, originalServings)

calculateScaleFactor(originalServings, targetServings) ==
  IF Le(originalServings, IntNum(0)) THEN IntNum(1)
  ELSE Div(targetServings, originalServings)

\* The first match of /(\d+)/ in s: the leftmost maximal run of digits,
\* <<>> when s holds no digit.
\* The match of /(\d)/: one digit instead of the run of digits.
RECURSIVE FirstDigit(_)
FirstDigit(s) ==
  IF s = <<>> THEN <<>>
  ELSE IF IsDigit(s[1]) THEN <<s[1]>>
  ELSE FirstDigit(Tail(s))

RECURSIVE FirstDigitRun(_)
FirstDigitRun(s) ==
  IF s = <<>> THEN <<>>
  ELSE IF IsDigit(s[1]) THEN Take(s, DigitRun(s))
  ELSE FirstDigitRun(Tail(s))

parseServings(servings) ==
  IF ~Truthy(servings) THEN Null
  ELSE LET str == Trim(JsString(servings))
           match == FirstDigitRun(str)
       IN  IF match = <<>> THEN Null
           ELSE LET num == parseInt(match)
                IN  IF IsNaN(num) THEN Null ELSE num

formatServings(count, originalUnit) ==
  LET unit == IF Truthy(originalUnit) THEN originalUnit.s
              ELSE <<"s", "e", "r", "v", "i", "n", "g", "s">>
  IN  JsString(count) \o <<" ">> \o unit


(***************************************************************************)
(* Inputs of the scaling functions.                                        *)
(***************************************************************************)
RECURSIVE StringsOver(_, _)
StringsOver(alphabet, n) ==
  IF n = 0 THEN {<<>>}
  ELSE LET shorter == StringsOver(alphabet, n - 1)
       IN  shorter \cup {Append(s, c) : s \in shorter, c \in alphabet}

QuantityAlphabet == {"0", "1", "2", "/", " ", ".", "x"}

\* "a/b" and "w a/b" written with the decimal numerals of a, b and w.
FractionStrings ==
  {NatToStr(a) \o <<"/">> \o NatToStr(b) : a \in 0..MaxNum, b \in 0..MaxNum}

MixedStrings ==
  {NatToStr(w) \o sp \o NatToStr(a) \o <<"/">> \o NatToStr(b) :
     w \in 0..MaxWhole, sp \in {<<" ">>, <<" ", "\t">>},
     a \in 0..MaxWhole + 1, b \in 0..MaxWhole + 2}

OtherStrings ==
  {<<"1", "e", "2">>,
   <<" ", "1", "/", "2", " ">>,
   <<"I", "n", "f", "i", "n", "i", "t", "y">>,
   <<"-", "1", "/", "2">>,
   <<"1", ".", "5">>,
   <<"0", ".", "2", "5">>,
   <<"1", "/", "2", " ", "x">>,
   <<"a", "b", "c">>,
   <<"1", "/", "2", "0">>,
   <<"3", "/", "5", "0">>,
   <<"1", "/", "3">>,
   <<"2", "/", "3">>,
   <<"3", "1", "/", "3">>,
   <<"2", "1", "/", "2">>,
   <<"1", "0", "1", "/", "1", "0">>}

QuantityStrings ==
  StringsOver(QuantityAlphabet, MaxStrLen) \cup FractionStrings
    \cup MixedStrings \cup OtherStrings

QuantityNumbers ==
  {Rat(n, d) : n \in 0..MaxQty, d \in {1, 2, 3, 4, 8}}

QuantityInputs ==
  {Undefined, Null, NaN, Inf(1)} \cup QuantityNumbers
    \cup {Str(s) : s \in QuantityStrings}

UnitSpellings ==
  {<<"t", "s", "p">>,
   <<"T", "S", "P">>,
   <<"t", "e", "a", "s", "p", "o", "o", "n">>,
   <<"T", "e", "a", "s", "p", "o", "o", "n", "s">>,
   <<"t", "b", "s", "p">>,
   <<"T", "a", "b", "l", "e", "s", "p", "o", "o", "n">>,
   <<"t", "a", "b", "l", "e", "s", "p", "o", "o", "n", "s">>,
   <<"c", "u", "p">>,
   <<"C", "u", "p", "s">>,
   <<"c">>,
   <<"o", "z">>,
   <<"O", "u", "n", "c", "e">>,
   <<"o", "u", "n", "c", "e", "s">>,
   <<"G">>,
   <<"g", "r", "a", "m">>,
   <<"g", "r", "a", "m", "s">>,
   <<"m", "l">>,
   <<"M", "i", "l", "l", "i", "l", "i", "t", "e", "r">>,
   <<"m", "i", "l", "l", "i", "l", "i", "t", "e", "r", "s">>,
   <<"p", "i", "e", "c", "e">>,
   <<"P", "i", "e", "c", "e", "s">>,
   <<"c", "l", "o", "v", "e">>,
   <<"c", "l", "o", "v", "e", "s">>,
   <<"s", "l", "i", "c", "e">>,
   <<"s", "l", "i", "c", "e", "s">>,
   <<"e", "g", "g">>,
   <<"E", "G", "G", "S">>,
   <<"l", "a", "r", "g", "e">>,
   <<"l", "b">>,
   <<>>}

ValueInputs ==
  {Rat(n, d) : n \in (0 - MaxValue)..MaxValue, d \in {1, 2, 3, 8, 10}}

Factors ==
  {Rat(t, o) : t \in 1..MaxServings, o \in 1..MaxServings} \cup {IntNum(10)}

IngredientNames ==
  {<<"s", "a", "l", "t">>,
   <<"e", "g", "g", " ", "y", "o", "l", "k">>}

IngredientQuantities ==
  {Undefined, Null, Str(<<>>), Str(<<"x">>), Str(<<"1", "/", "0">>),
   Str(<<"1", "/", "2">>), Str(<<"1", " ", "1", "/", "2">>), Str(<<"2", "x">>)}
    \cup {Rat(n, d) : n \in 0..MaxQty, d \in {1, 4}}

IngredientUnits ==
  {Undefined, Str(<<>>)} \cup {Str(u) : u \in
   {<<"C", "u", "p", "s">>,
   <<"t", "s", "p">>,
   <<"o", "z">>,
   <<"g">>,
   <<"c", "l", "o", "v", "e", "s">>,
   <<"l", "a", "r", "g", "e">>}}

IngredientScalings ==
  {Undefined, [mode |-> Undefined], [mode |-> Str(S_proportional)],
   [mode |-> Str(S_toTaste)], [mode |-> Str(S_fixed)], [mode |-> Str(S_linear)]}

Ingredients ==
  [name : IngredientNames, quantity : IngredientQuantities,
   unit : IngredientUnits, scaling : IngredientScalings]

ServingsAlphabet == {"6", "8", "0", "-", " ", "s"}

ServingsLabels ==
  {Undefined, Null}
    \cup {Str(s) : s \in StringsOver(ServingsAlphabet, MaxStrLen)}
    \cup {Str(s) : s \in
   {<<"4", " ", "s", "e", "r", "v", "i", "n", "g", "s">>,
   <<"M", "a", "k", "e", "s", " ", "2", "4">>,
   <<"S", "e", "r", "v", "e", "s", " ", "6", "-", "8">>,
   <<"v", "a", "r", "i", "e", "s">>,
   <<"M", "a", "k", "e", "s", " ", "1", "2", " ", "c", "o", "o", "k", "i", "e", "s">>,
   <<"0", "0", "7">>}}

ServingsCounts == {IntNum(i) : i \in -1..MaxServings} \cup {Rat(1, 2), Rat(3, 2)}
TargetCounts == {IntNum(i) : i \in 0..(2 * MaxServings)} \cup {IntNum(10)}

(***************************************************************************)
(* The scaling library as a state machine.  A behaviour is one call of an  *)
(* exported function: the initial state (pc = "call") holds the function's *)
(* name in fn and its arguments in arg; the call's step puts the return    *)
(* value in ret and sets pc to "done".                                     *)
(***************************************************************************)
Pending == [k |-> "pending"]

\* No component is mounted and the store is empty.
NoApp ==
  /\ targetState = Null
  /\ recipeStore = <<>>
  /\ inflight = <<>>
  /\ now = 0

Init ==
  /\ pc = "call"
  /\ ret = Pending
  /\ NoApp
  /\ \/ /\ fn = "parseQuantity"
        /\ \E qty \in QuantityInputs : arg = <<qty>>
     \/ /\ fn = "formatQuantity"
        /\ \E qty \in QuantityInputs :
             parseQuantity(qty) # Null /\ arg = <<parseQuantity(qty), qty>>
     \/ /\ fn = "roundToSensible"
        /\ \E value \in ValueInputs, unit \in UnitSpellings : arg = <<value, unit>>
     \/ /\ fn = "scaleIngredient"
        /\ \E ingredient \in Ingredients, scaleFactor \in Factors :
             arg = <<ingredient, scaleFactor>>
     \/ /\ fn = "calculateScaleFactor"
        /\ \E originalServings \in ServingsCounts, targetServings \in TargetCounts :
             arg = <<originalServings, targetServings>>
     \/ /\ fn = "parseServings"
        /\ \E servings \in ServingsLabels : arg = <<servings>>

Call_parseQuantity ==
  /\ fn = "parseQuantity" /\ pc = "call"
  /\ ret' = parseQuantity(arg[1])
  /\ pc' = "done"
  /\ UNCHANGED <<fn, arg, appVars>>

\* formatQuantity applied to a parsed quantity, as formatIngredientDisplay
\* applies it; arg[2] keeps the text or number the value was parsed from.
Call_formatQuantity ==
  /\ fn = "formatQuantity" /\ pc = "call"
  /\ ret' = formatQuantity(arg[1])
  /\ pc' = "done"
  /\ UNCHANGED <<fn, arg, appVars>>

Call_roundToSensible ==
  /\ fn = "roundToSensible" /\ pc = "call"
  /\ ret' = roundToSensible(arg[1], arg[2])
  /\ pc' = "done"
  /\ UNCHANGED <<fn, arg, appVars>>

Call_scaleIngredient ==
  /\ fn = "scaleIngredient" /\ pc = "call"
  /\ ret' = scaleIngredient(arg[1], arg[2])
  /\ pc' = "done"
  /\ UNCHANGED <<fn, arg, appVars>>

Call_calculateScaleFactor ==
  /\ fn = "calculateScaleFactor" /\ pc = "call"
  /\ ret' = calculateScaleFactor(arg[1], arg[2])
  /\ pc' = "done"
  /\ UNCHANGED <<fn, arg, appVars>>

Call_parseServings ==
  /\ fn = "parseServings" /\ pc = "call"
  /\ ret' = parseServings(arg[1])
  /\ pc' = "done"
  /\ UNCHANGED <<fn, arg, appVars>>

Next ==
  \/ Call_parseQuantity
  \/ Call_formatQuantity
  \/ Call_roundToSensible
  \/ Call_scaleIngredient
  \/ Call_calculateScaleFactor
  \/ Call_parseServings

Spec == Init /\ [][Next]_vars


(***************************************************************************)
(* Properties of the ingredient scaler.                                    *)
(***************************************************************************)
Returned(f) == pc = "done" /\ fn = f

\* C1: an ingredient whose scaling.mode is 'toTaste' or 'fixed' is returned
\* by scaleIngredient, for every scale factor, with scaled = false and the
\* display string of formatIngredientDisplay: its quantity is not multiplied.
C1_ModeInvariance ==
  (Returned("scaleIngredient")
     /\ ScalingMode(arg[1]) \in {Str(S_toTaste), Str(S_fixed)})
  => /\ ret.scaled = FALSE
     /\ ret.display = formatIngredientDisplay(arg[1])

\* A fixed ingredient with quantity 1 scaled by 2 still shows 1.
C1_Witness ==
  /\ Returned("scaleIngredient")
  /\ ScalingMode(arg[1]) = Str(S_fixed)
  /\ arg[1].quantity = IntNum(1)
  /\ arg[1].unit = Str(<<"t", "s", "p">>)
  /\ arg[2] = IntNum(2)
  /\ ret.scaled = FALSE
  /\ Take(ret.display, 5) = <<"1", " ", "t", "s", "p">>


\* The ingredient is in proportional mode, named or by default.
Proportional(ingredient) ==
  ScalingMode(ingredient) \in {Undefined, Str(S_proportional)}

C3_UnparsedNotScaled ==
  (Returned("scaleIngredient") /\ Proportional(arg[1])
     /\ parseQuantity(arg[1].quantity) = Null)
  => ret = [display |-> formatIngredientDisplay(arg[1]), scaled |-> FALSE]

\* The quantity "1/0" with the factor 2 is shown as written.
C3_Witness ==
  /\ Returned("scaleIngredient")
  /\ Proportional(arg[1])
  /\ arg[1].quantity = Str(<<"1", "/", "0">>)
  /\ arg[1].unit = Undefined
  /\ arg[1].name = <<"s", "a", "l", "t">>
  /\ arg[2] = IntNum(2)
  /\ ret = [display |-> <<"1", "/", "0", " ">> \o <<"s", "a", "l", "t">>, scaled |-> FALSE]

\* C4 as stated: whenever scaleIngredient returns scaled = true, the display
\* string differs from formatIngredientDisplay of the same ingredient.
C4_ScaledMeansChanged ==
  (Returned("scaleIngredient") /\ ret.scaled)
  => ret.display # formatIngredientDisplay(arg[1])

\* C4 amended: scaleIngredient returns scaled = true exactly when the factor
\* is not 1, the mode is neither 'toTaste' nor 'fixed' and the quantity
\* parses; the display may then still equal the unscaled display.
C4_ScaledMeansEligible ==
  Returned("scaleIngredient")
  => (ret.scaled <=> /\ arg[2] # IntNum(1)
                     /\ ScalingMode(arg[1]) \notin {Str(S_toTaste), Str(S_fixed)}
                     /\ parseQuantity(arg[1].quantity) # Null)

\* One clove by 4/3 rounds back to one clove: flagged, yet displayed as before.
C4_Witness ==
  /\ Returned("scaleIngredient")
  /\ arg[1].quantity = IntNum(1)
  /\ arg[1].unit = Str(<<"c", "l", "o", "v", "e", "s">>)
  /\ arg[2] = Rat(4, 3)
  /\ ret.scaled
  /\ ret.display = formatIngredientDisplay(arg[1])

(***************************************************************************)
(* Properties of the servings utilities.                                   *)
(***************************************************************************)
\* C5: calculateScaleFactor(original, target) is target / original when
\* original > 0 and exactly 1 when original <= 0; so it is 1 when original
\* = target > 0 and when original = 0, and for every original and every
\* target >= 1 it is a finite positive number.
C5_ScaleFactor ==
  Returned("calculateScaleFactor")
  => /\ Lt(IntNum(0), arg[1]) => (IsNum(ret) /\ Mul(ret, arg[1]) = arg[2])
     /\ Le(arg[1], IntNum(0)) => ret = IntNum(1)
     /\ (Lt(IntNum(0), arg[1]) /\ arg[1] = arg[2]) => ret = IntNum(1)
     /\ arg[1] = IntNum(0) => ret = IntNum(1)
     /\ Le(IntNum(1), arg[2]) => (IsFinite(ret) /\ Lt(IntNum(0), ret))

\* No original servings (0) and a target of 4: the factor is 1.
C5_Witness ==
  /\ Returned("calculateScaleFactor")
  /\ arg = <<IntNum(0), IntNum(4)>>
  /\ ret = IntNum(1)

\* The label's first maximal run of decimal digits is s[p..q].
FirstRunAt(s, p, q) ==
  /\ 1 <= p /\ p <= q /\ q <= Len(s)
  /\ \A i \in 1..(p - 1) : ~IsDigit(s[i])
  /\ \A i \in p..q : IsDigit(s[i])
  /\ (q < Len(s) => ~IsDigit(s[q + 1]))

\* C10: parseServings returns the value of the first (leftmost) maximal run
\* of decimal digits of the label, so the lower bound 6 of "Serves 6-8";
\* and null when the label is null, undefined, empty or holds no digit.
C10_FirstNumber ==
  Returned("parseServings")
  => IF arg[1].k = "str" /\ \E i \in 1..Len(arg[1].s) : IsDigit(arg[1].s[i])
     THEN \E p \in 1..Len(arg[1].s), q \in 1..Len(arg[1].s) :
            /\ FirstRunAt(arg[1].s, p, q)
            /\ ret = IntNum(DigitsValue(SubSeq(arg[1].s, p, q)))
     ELSE ret = Null

C10_Witness ==
  /\ Returned("parseServings")
  /\ arg[1] = Str(<<"S", "e", "r", "v", "e", "s", " ", "6", "-", "8">>)
  /\ ret = IntNum(6)

(***************************************************************************)
(* Properties of the quantity primitives.                                  *)
(***************************************************************************)
\* The granularity the unit's class is rounded to.
Granularity(unit) ==
  LET u == toLowerCase(unit)
  IN  IF u \in QuarterUnits \cup CupUnits THEN Rat(1, 4)
      ELSE IF u \in OunceUnits THEN Rat(1, 2)
      ELSE IF u \in GramUnits \cup MilliliterUnits THEN IntNum(5)
      ELSE IF u \in CountUnits THEN IntNum(1)
      ELSE Rat(1, 100)

IsMultipleOf(v, g) == IsNum(v) /\ Div(v, g).d = 1

\* C7: for every value and every unit, matched without regard to case,
\* roundToSensible returns the multiple of the unit class's granularity that
\* is nearest to the value: 1/4 for teaspoons, tablespoons and cups, 1/2
\* for ounces, 5 for grams and milliliters, 1 for count units, 0.01 otherwise.
C7_NearestMultiple ==
  Returned("roundToSensible")
  => /\ IsMultipleOf(ret, Granularity(arg[2]))
     /\ Le(AbsNum(Sub(ret, arg[1])), Div(Granularity(arg[2]), IntNum(2)))

\* 3/10 "TSP" is rounded to a quarter.
C7_Witness ==
  /\ Returned("roundToSensible")
  /\ arg = <<Rat(3, 10), <<"T", "S", "P">> >>
  /\ ret = Rat(1, 4)


\* s is a simple fraction "a/b" with the slash at p: digits, a slash, digits.
SlashAt(s, p) ==
  /\ 1 < p /\ p < Len(s) /\ s[p] = "/"
  /\ AllDigits(Take(s, p - 1)) /\ AllDigits(Drop(s, p))

IsFractionText(s) == \E p \in 1..Len(s) : SlashAt(s, p)
SlashOf(s) == CHOOSE p \in 1..Len(s) : SlashAt(s, p)
NumeratorOf(s) == DigitsValue(Take(s, SlashOf(s) - 1))
DenominatorOf(s) == DigitsValue(Drop(s, SlashOf(s)))

\* s is a mixed fraction "w a/b": digits s[1..p], white space s[p+1..r], then
\* a simple fraction.
MixedAt(s, p, r) ==
  /\ 1 <= p /\ p < r /\ r < Len(s)
  /\ AllDigits(Take(s, p))
  /\ \A i \in (p + 1)..r : IsSpace(s[i])
  /\ IsFractionText(Drop(s, r))

IsMixedText(s) == \E p \in 1..Len(s), r \in 1..Len(s) : MixedAt(s, p, r)
MixedSplit(s) ==
  CHOOSE pr \in (1..Len(s)) \X (1..Len(s)) : MixedAt(s, pr[1], pr[2])
WholeOf(s) == DigitsValue(Take(s, MixedSplit(s)[1]))
FractionOf(s) == Drop(s, MixedSplit(s)[2])

\* x is the mantissa of a decimal literal: digits, digits "." digits, digits
\* "." or "." digits; e is an exponent part or empty.
IsMantissa(x) ==
  LET i == DigitRun(x)
  IN  \/ (i > 0 /\ i = Len(x))
      \/ /\ i < Len(x) /\ x[i + 1] = "."
         /\ \A j \in (i + 2)..Len(x) : IsDigit(x[j])
         /\ (i > 0 \/ Len(x) > i + 1)

MantissaValue(x) ==
  LET i == DigitRun(x)
      f == IF i = Len(x) THEN 0 ELSE Len(x) - i - 1
  IN  Rat(DigitsValue(Take(x, i)) * Pow10(f) + DigitsValue(Drop(x, Len(x) - f)),
          Pow10(f))

IsExponent(e) ==
  \/ e = <<>>
  \/ /\ Len(e) >= 2 /\ e[1] \in {"e", "E"}
     /\ \/ AllDigits(Tail(e))
        \/ (e[2] \in {"+", "-"} /\ AllDigits(Drop(e, 2)))

ExponentValue(e) ==
  IF e = <<>> THEN 0
  ELSE IF e[2] = "-" THEN 0 - DigitsValue(Drop(e, 2))
  ELSE IF e[2] = "+" THEN DigitsValue(Drop(e, 2))
  ELSE DigitsValue(Tail(e))

LiteralAt(u, m) == IsMantissa(Take(u, m)) /\ IsExponent(Drop(u, m))

IsUnsignedLiteral(u) ==
  u = S_Infinity \/ \E m \in 1..Len(u) : LiteralAt(u, m)

UnsignedValue(u) ==
  IF u = S_Infinity THEN Inf(1)
  ELSE LET m == CHOOSE k \in 1..Len(u) : LiteralAt(u, k)
           e == ExponentValue(Drop(u, m))
       IN  IF e >= 0 THEN Mul(MantissaValue(Take(u, m)), IntNum(Pow10(e)))
           ELSE Div(MantissaValue(Take(u, m)), IntNum(Pow10(0 - e)))

\* The whole of s is a decimal literal, with an optional sign.
IsLiteral(s) ==
  /\ s # <<>>
  /\ IF s[1] \in {"+", "-"} THEN IsUnsignedLiteral(Tail(s))
     ELSE IsUnsignedLiteral(s)

LiteralValue(s) ==
  IF s[1] = "-" THEN Neg(UnsignedValue(Tail(s)))
  ELSE IF s[1] = "+" THEN UnsignedValue(Tail(s))
  ELSE UnsignedValue(s)

\* The prefixes of s that are decimal literals.
LiteralPrefixes(s) == {k \in 1..Len(s) : IsLiteral(Take(s, k))}
LongestLiteral(s) ==
  Take(s, CHOOSE k \in LiteralPrefixes(s) : \A j \in LiteralPrefixes(s) : j <= k)

\* What C9 says of numbers, absent values and fraction strings: a number is
\* returned as it is; undefined, null and the empty string give null; "a/b"
\* gives a/b and "w a/b" gives w + a/b when b # 0, and null when b = 0, never
\* NaN or an infinity.  t is the text without its surrounding white space.
ParsedAsStated(q, t, r) ==
  /\ q.k \in {"num", "NaN", "inf"} => r = q
  /\ (q \in {Undefined, Null} \/ q = Str(<<>>)) => r = Null
  /\ (q.k = "str" /\ IsFractionText(t))
       => /\ r = Null \/ IsNum(r)
          /\ DenominatorOf(t) = 0 => r = Null
          /\ DenominatorOf(t) # 0
               => (r # Null /\ Mul(r, IntNum(DenominatorOf(t))) = IntNum(NumeratorOf(t)))
  /\ (q.k = "str" /\ IsMixedText(t))
       => /\ r = Null \/ IsNum(r)
          /\ DenominatorOf(FractionOf(t)) = 0 => r = Null
          /\ DenominatorOf(FractionOf(t)) # 0
               => /\ r # Null
                  /\ Mul(Sub(r, IntNum(WholeOf(t))), IntNum(DenominatorOf(FractionOf(t))))
                       = IntNum(NumeratorOf(FractionOf(t)))

OtherText(q, t) ==
  q.k = "str" /\ q.s # <<>> /\ ~IsFractionText(t) /\ ~IsMixedText(t)

IsGlyph(c) == \E i \in 1..Len(fractions) : fractions[i].g = c
GlyphValue(c) == fractions[CHOOSE i \in 1..Len(fractions) : fractions[i].g = c].v
HasGlyph(s) == s # <<>> /\ IsGlyph(s[Len(s)])
Denoted(s) ==
  IF HasGlyph(s)
  THEN Add(IntNum(DigitsValue(Take(s, Len(s) - 1))), GlyphValue(s[Len(s)]))
  ELSE MantissaValue(s)

\* The call formats the parse of a fraction string "a/b" with b # 0.
FormatsFraction ==
  /\ Returned("formatQuantity")
  /\ arg[2].k = "str" /\ IsFractionText(arg[2].s)
  /\ DenominatorOf(arg[2].s) # 0

FractionValue(s) == Rat(NumeratorOf(s), DenominatorOf(s))

\* C8 as stated: formatQuantity(parseQuantity("a/b")) denotes a value within
\* 0.02 of a/b when rendered with a fraction glyph, and otherwise exactly a/b.
C8_RoundTripExact ==
  FormatsFraction
  => IF HasGlyph(ret)
     THEN Le(AbsNum(Sub(Denoted(ret), FractionValue(arg[2].s))), Rat(2, 100))
     ELSE Denoted(ret) = FractionValue(arg[2].s)

\* C8 amended: with a glyph the rendering is within 0.02 of a/b; otherwise it
\* denotes a/b rounded to one decimal place when a/b < 10 and to the nearest
\* integer when a/b >= 10.
C8_RoundTripRounded ==
  FormatsFraction
  => LET v == FractionValue(arg[2].s)
         step == IF Lt(v, IntNum(10)) THEN Rat(1, 10) ELSE IntNum(1)
     IN  IF HasGlyph(ret)
         THEN Le(AbsNum(Sub(Denoted(ret), v)), Rat(2, 100))
         ELSE /\ IsMantissa(ret)
              /\ IsMultipleOf(Denoted(ret), step)
              /\ Le(AbsNum(Sub(Denoted(ret), v)), Div(step, IntNum(2)))

\* "1/12" is rendered "0.1".
C8_Witness ==
  /\ Returned("formatQuantity")
  /\ arg[2] = Str(<<"1", "/", "1", "2">>)
  /\ ret = <<"0", ".", "1">>


(***************************************************************************)
(* Recipe normalizer (src/lib/normalize.ts).  An array is Arr(<<...>>), an *)
(* object a record with k = "obj" whose absent fields are Undefined; a     *)
(* call that raises a TypeError returns Throw.                             *)
(***************************************************************************)
Arr(a) == [k |-> "arr", a |-> a]
Throw == [k |-> "throw", error |-> "TypeError"]
IsThrow(v) == v.k = "throw"
AnyThrow(a) == \E i \in 1..Len(a) : IsThrow(a[i])

\* A property is read from v: a TypeError when v is null or undefined.
Nullish(v) == v.k \in {"null", "undefined"}
IsObject(v) == v.k = "obj"

\* Number(v) where arithmetic is applied to v.
ToNumber(v) ==
  CASE v.k \in {"num", "NaN", "inf"} -> v
    [] v.k = "null" -> IntNum(0)
    [] v.k = "bool" -> IntNum(IF v.b THEN 1 ELSE 0)
    [] v.k = "str" -> (IF Trim(v.s) = <<>> THEN IntNum(0)
                       ELSE IF IsNaN(parseFloat(v.s)) THEN NaN ELSE parseFloat(v.s))
    [] OTHER -> NaN

\* a % b for b a positive integer: the remainder has the sign of a.
JsRem(a, b) ==
  IF ~IsNum(a) THEN NaN
  ELSE IF a.n >= 0 THEN Sub(a, Mul(IntNum(b), MathFloor(Div(a, IntNum(b)))))
  ELSE Neg(Sub(Neg(a), Mul(IntNum(b), MathFloor(Div(Neg(a), IntNum(b))))))

\* An element of Array.prototype.join: undefined and null join as ''.
JoinPart(v) == IF Nullish(v) THEN <<>> ELSE JsString(v)
JoinValues(parts) == Join([i \in 1..Len(parts) |-> JoinPart(parts[i])])

\* The em dash before an ingredient's notes, one character.
S_dash == <<"<em-dash>">>
S_min == <<"m", "i", "n">>
S_hr == <<"h", "r">>

formatMinutesParts(hours, mins) ==
  IF hours = IntNum(0) THEN JsString(mins) \o <<" ">> \o S_min
  ELSE IF mins = IntNum(0) THEN JsString(hours) \o <<" ">> \o S_hr
  ELSE JsString(hours) \o <<" ">> \o S_hr \o <<" ">> \o JsString(mins)
         \o <<" ">> \o S_min

formatMinutes(minutes) ==
  Str(formatMinutesParts(MathFloor(Div(ToNumber(minutes), IntNum(60))),
                         JsRem(ToNumber(minutes), 60)))

normalizeMiseItem(item) ==
  IF item.k = "str" THEN item
  ELSE IF Nullish(item) THEN Throw
  ELSE IF IsObject(item) THEN item.text
  ELSE Undefined

normalizeMiseEnPlaceMapped(mapped) ==
  IF AnyThrow(mapped) THEN Throw ELSE Arr(SelectSeq(mapped, Truthy))

normalizeMiseEnPlace(items) ==
  IF ~Truthy(items) \/ items.k # "arr" THEN Arr(<<>>)
  ELSE normalizeMiseEnPlaceMapped(
         [i \in 1..Len(items.a) |-> normalizeMiseItem(items.a[i])])

\* item.quantity is the structured form { amount, unit }.
StructuredQuantity(q) == Truthy(q) /\ IsObject(q) /\ q.amount # Undefined

\* The identifier also counts the calls made before: state that survives
\* between calls.
IngredientId_Counting(index) ==
  Str(<<"i", "n", "g", "-">> \o NatToStr(index + (IF pc = "done" THEN 1 ELSE 0)))

IngredientId(index) == Str(<<"i", "n", "g", "-">> \o NatToStr(index))

\* item.toTaste || (item.scaling?.mode === 'toTaste')
IsToTaste(item) ==
  IF Truthy(item.toTaste) THEN item.toTaste
  ELSE Bool(item.scaling # Undefined /\ item.scaling.mode = Str(S_toTaste))

IngredientParts(item) ==
  (IF StructuredQuantity(item.quantity)
   THEN <<Str(JsString(item.quantity.amount))>>
          \o (IF Truthy(item.quantity.unit) THEN <<item.quantity.unit>> ELSE <<>>)
   ELSE IF item.quantity # Undefined
   THEN <<Str(JsString(item.quantity))>>
          \o (IF Truthy(item.unit) THEN <<item.unit>> ELSE <<>>)
   ELSE IF Truthy(item.unit) THEN <<item.unit>> ELSE <<>>)
  \o <<item.name>>
  \o (IF Truthy(IsToTaste(item)) THEN <<Str(S_toTasteMark)>> ELSE <<>>)
  \o (IF Truthy(item.prep)
      THEN <<Str(<<"(">> \o JsString(item.prep) \o <<")">>)>> ELSE <<>>)
  \o (IF Truthy(item.notes)
      THEN <<Str(S_dash \o <<" ">> \o JsString(item.notes))>> ELSE <<>>)

\* Only a quantity or a unit makes an ingredient structured.
IngredientIsStructured_QuantityOrUnit(item) ==
  item.quantity # Undefined \/ item.unit # Undefined

IngredientIsStructured(item) ==
  \/ item.quantity # Undefined
  \/ item.unit # Undefined
  \/ Truthy(IsToTaste(item))
  \/ item.prep # Undefined

IngredientQuantityStr(item) ==
  IF StructuredQuantity(item.quantity) THEN Str(JsString(item.quantity.amount))
  ELSE IF item.quantity # Undefined THEN Str(JsString(item.quantity))
  ELSE Undefined

IngredientUnitStr(item) ==
  IF Truthy(item.quantity) /\ IsObject(item.quantity)
       /\ item.quantity.unit # Undefined
  THEN item.quantity.unit
  ELSE IF Truthy(item.unit) THEN item.unit
  ELSE Undefined

normalizeIngredient(item, index) ==
  IF item.k = "str"
  THEN [k |-> "obj", id |-> IngredientId(index), text |-> item,
        quantity |-> Undefined, unit |-> Undefined, name |-> item,
        notes |-> Undefined, toTaste |-> Undefined, isStructured |-> FALSE]
  ELSE IF Nullish(item) THEN Throw
  ELSE [k |-> "obj", id |-> IngredientId(index),
        text |-> Str(JoinValues(IngredientParts(item))),
        quantity |-> IngredientQuantityStr(item),
        unit |-> IngredientUnitStr(item), name |-> item.name,
        notes |-> item.notes, toTaste |-> IsToTaste(item),
        isStructured |-> IngredientIsStructured(item)]

ArrOrThrow(mapped) == IF AnyThrow(mapped) THEN Throw ELSE Arr(mapped)

normalizeIngredients(items) ==
  IF ~Truthy(items) \/ items.k # "arr" THEN Arr(<<>>)
  ELSE ArrOrThrow([i \in 1..Len(items.a) |-> normalizeIngredient(items.a[i], i - 1)])

S_passive == <<"p", "a", "s", "s", "i", "v", "e">>
S_passiveSuffix == <<" ", "(", "p", "a", "s", "s", "i", "v", "e", ")">>

\* The parts formatTiming collects from a duration object.
DurationMinutesParts(mins) ==
  IF Le(IntNum(60), ToNumber(mins))
  THEN IF Lt(IntNum(0), JsRem(ToNumber(mins), 60))
       THEN <<JsString(MathFloor(Div(ToNumber(mins), IntNum(60)))) \o <<"h", " ">>
                \o JsString(JsRem(ToNumber(mins), 60)) \o <<"m">>>>
       ELSE <<JsString(MathFloor(Div(ToNumber(mins), IntNum(60)))) \o <<"h">>>>
  ELSE <<JsString(mins) \o <<"m">>>>

DurationParts(duration) ==
  IF duration.minMinutes # Undefined /\ duration.maxMinutes # Undefined
  THEN <<JsString(duration.minMinutes) \o <<"-">>
           \o JsString(duration.maxMinutes) \o <<"m">>>>
  ELSE IF duration.minutes # Undefined
  THEN DurationMinutesParts(duration.minutes)
  ELSE IF duration.hours # Undefined
  THEN (IF Truthy(duration.hours)
        THEN <<JsString(duration.hours) \o <<"h">>>> ELSE <<>>)
  ELSE <<>>

CompletionCue(timing) ==
  IF Truthy(timing.completionCue) THEN timing.completionCue ELSE Undefined

TimingResult(timing, parts) ==
  IF parts = <<>> THEN CompletionCue(timing)
  ELSE IF timing.activity = Str(S_passive)
  THEN Str(Join(parts) \o S_passiveSuffix)
  ELSE Str(Join(parts))

formatTiming(timing) ==
  IF ~Truthy(timing) \/ ~IsObject(timing) THEN Undefined
  ELSE IF ~Truthy(timing.duration) THEN CompletionCue(timing)
  ELSE IF ~IsObject(timing.duration) THEN Throw
  ELSE TimingResult(timing, DurationParts(timing.duration))

InstructionId(index) == Str(<<"s", "t", "e", "p", "-">> \o NatToStr(index))

\* item.timing?.activity === 'passive'
IsPassive(item) ==
  Bool(IsObject(item.timing) /\ item.timing.activity = Str(S_passive))

InstructionWithTiming(item, index, timing) ==
  IF IsThrow(timing) THEN Throw
  ELSE [k |-> "obj", id |-> InstructionId(index), text |-> item.text,
        timing |-> timing, isPassive |-> IsPassive(item),
        hasTiming |-> timing # Undefined]

normalizeInstruction(item, index) ==
  IF item.k = "str"
  THEN [k |-> "obj", id |-> InstructionId(index), text |-> item,
        timing |-> Undefined, isPassive |-> Undefined, hasTiming |-> FALSE]
  ELSE IF Nullish(item) THEN Throw
  ELSE InstructionWithTiming(item, index, formatTiming(item.timing))

normalizeInstructions(items) ==
  IF ~Truthy(items) \/ items.k # "arr" THEN Arr(<<>>)
  ELSE ArrOrThrow([i \in 1..Len(items.a) |-> normalizeInstruction(items.a[i], i - 1)])

\* The first match of /<prefix>(\d+)<unit>/ in iso: the captured digits,
\* or <<>> when the pattern does not occur.
MatchesAt(iso, i, prefix, unit) ==
  /\ i + Len(prefix) <= Len(iso)
  /\ SubSeq(iso, i, i + Len(prefix) - 1) = prefix
  /\ DigitRun(Drop(iso, i + Len(prefix) - 1)) > 0
  /\ i + Len(prefix) + DigitRun(Drop(iso, i + Len(prefix) - 1)) <= Len(iso)
  /\ iso[i + Len(prefix) + DigitRun(Drop(iso, i + Len(prefix) - 1))] = unit

CapturedAt(iso, i, prefix) ==
  Take(Drop(iso, i + Len(prefix) - 1), DigitRun(Drop(iso, i + Len(prefix) - 1)))

IsoMatch(iso, prefix, unit) ==
  IF \E i \in 1..Len(iso) : MatchesAt(iso, i, prefix, unit)
  THEN CapturedAt(iso, CHOOSE i \in 1..Len(iso) :
                         /\ MatchesAt(iso, i, prefix, unit)
                         /\ \A j \in 1..(i - 1) : ~MatchesAt(iso, j, prefix, unit),
                  prefix)
  ELSE <<>>

S_day == <<"d", "a", "y">>
S_week == <<"w", "e", "e", "k">>
S_month == <<"m", "o", "n", "t", "h">>
S_hour == <<"h", "o", "u", "r">>
S_notSpecified == <<"D", "u", "r", "a", "t", "i", "o", "n", " ", "n", "o", "t", " ", "s", "p", "e", "c", "i", "f", "i", "e", "d">>

CountText(digits, unit) ==
  IF DigitsValue(digits) = 1 THEN <<"1", " ">> \o unit
  ELSE NatToStr(DigitsValue(digits)) \o <<" ">> \o unit \o <<"s">>

\* The hour count is tried before the day count.
StorageText_HourFirst(iso) ==
  IF IsoMatch(iso, <<"P", "T">>, "H") # <<>>
  THEN CountText(IsoMatch(iso, <<"P", "T">>, "H"), S_hour)
  ELSE IF IsoMatch(iso, <<"P">>, "D") # <<>>
  THEN CountText(IsoMatch(iso, <<"P">>, "D"), S_day)
  ELSE IF IsoMatch(iso, <<"P">>, "W") # <<>>
  THEN CountText(IsoMatch(iso, <<"P">>, "W"), S_week)
  ELSE IF IsoMatch(iso, <<"P">>, "M") # <<>>
  THEN CountText(IsoMatch(iso, <<"P">>, "M"), S_month)
  ELSE iso

StorageText(iso) ==
  IF IsoMatch(iso, <<"P">>, "D") # <<>>
  THEN CountText(IsoMatch(iso, <<"P">>, "D"), S_day)
  ELSE IF IsoMatch(iso, <<"P">>, "W") # <<>>
  THEN CountText(IsoMatch(iso, <<"P">>, "W"), S_week)
  ELSE IF IsoMatch(iso, <<"P">>, "M") # <<>>
  THEN CountText(IsoMatch(iso, <<"P">>, "M"), S_month)
  ELSE IF IsoMatch(iso, <<"P", "T">>, "H") # <<>>
  THEN CountText(IsoMatch(iso, <<"P", "T">>, "H"), S_hour)
  ELSE iso

\* method?.duration?.iso8601
Iso8601(method) ==
  IF IsObject(method.duration) THEN method.duration.iso8601 ELSE Undefined

formatStorageDuration(method) ==
  IF ~Truthy(Iso8601(method)) \/ Iso8601(method).k # "str"
  THEN (IF Truthy(method.notes) THEN method.notes ELSE Str(S_notSpecified))
  ELSE IF Truthy(method.notes) /\ method.notes # Str(StorageText(Iso8601(method).s))
  THEN method.notes
  ELSE Str(StorageText(Iso8601(method).s))

StorageEntry(method) ==
  IF Truthy(method) /\ IsObject(method) /\ Truthy(method.duration)
  THEN formatStorageDuration(method)
  ELSE Undefined

\* An empty storage map is returned instead of undefined.
StorageResult_EmptyMap(refrigerated, frozen, roomTemp) ==
  [k |-> "obj", refrigerated |-> refrigerated, frozen |-> frozen,
   roomTemp |-> roomTemp]

StorageResult(refrigerated, frozen, roomTemp) ==
  IF refrigerated = Undefined /\ frozen = Undefined /\ roomTemp = Undefined
  THEN Undefined
  ELSE [k |-> "obj", refrigerated |-> refrigerated, frozen |-> frozen,
        roomTemp |-> roomTemp]

normalizeStorage(storage) ==
  IF ~Truthy(storage) \/ ~IsObject(storage) THEN Undefined
  ELSE StorageResult(StorageEntry(storage.refrigerated),
                     StorageEntry(storage.frozen),
                     StorageEntry(storage.roomTemp))

\* item.timing?.duration
TimingDuration(item) ==
  IF IsObject(item.timing) THEN item.timing.duration ELSE Undefined

\* The minutes one duration object adds to the total.
DurationMinutes(d) ==
  IF d.minutes # Undefined THEN ToNumber(d.minutes)
  ELSE IF d.minMinutes # Undefined /\ d.maxMinutes # Undefined
  THEN Div(Add(ToNumber(d.minMinutes), ToNumber(d.maxMinutes)), IntNum(2))
  ELSE IF d.hours # Undefined /\ Truthy(d.hours)
  THEN Mul(ToNumber(d.hours), IntNum(60))
  ELSE IntNum(0)

\* The minutes one instruction adds to the total, or Throw.
InstructionMinutes(item) ==
  IF item.k = "null" THEN Throw
  ELSE IF ~IsObject(item) THEN IntNum(0)
  ELSE IF ~Truthy(TimingDuration(item)) THEN IntNum(0)
  ELSE IF ~IsObject(TimingDuration(item)) THEN Throw
  ELSE DurationMinutes(TimingDuration(item))

RECURSIVE SumMinutes(_, _)
SumMinutes(items, total) ==
  IF items = <<>> THEN total
  ELSE IF IsThrow(InstructionMinutes(items[1])) THEN Throw
  ELSE SumMinutes(Tail(items), Add(total, InstructionMinutes(items[1])))

TotalTimeText(totalMinutes) ==
  IF IsThrow(totalMinutes) THEN Throw
  ELSE IF totalMinutes = IntNum(0) THEN Undefined
  ELSE formatMinutes(MathRound(totalMinutes))

calculateTotalTime(instructions) ==
  IF ~Truthy(instructions) \/ instructions.k # "arr" THEN Undefined
  ELSE TotalTimeText(SumMinutes(instructions.a, IntNum(0)))

S_untitled == <<"U", "n", "t", "i", "t", "l", "e", "d", " ", "R", "e", "c", "i", "p", "e">>

\* recipe.yield ? `${recipe.yield.amount} ${recipe.yield.unit}` : recipe.servings
DisplayServings(recipe) ==
  IF Truthy(recipe.yield)
  THEN Str(JsString(recipe.yield.amount) \o <<" ">> \o JsString(recipe.yield.unit))
  ELSE recipe.servings

\* recipe.time?.total ? formatMinutes(...) : calculateTotalTime(...)
DisplayTotalTime(recipe) ==
  IF IsObject(recipe.time) /\ Truthy(recipe.time.total)
  THEN formatMinutes(recipe.time.total.minutes)
  ELSE calculateTotalTime(recipe.instructions)

\* Every ingredient and every step is counted as structured or timed.
Stats_CountAll(ingredients, instructions, miseEnPlace, storage) ==
  [structuredIngredients |-> Len(ingredients.a),
   totalIngredients |-> Len(ingredients.a),
   timedSteps |-> Len(instructions.a),
   totalSteps |-> Len(instructions.a),
   hasMise |-> Len(miseEnPlace.a) > 0,
   hasStorage |-> storage # Undefined]

Stats(ingredients, instructions, miseEnPlace, storage) ==
  [structuredIngredients |->
     Cardinality({i \in 1..Len(ingredients.a) : ingredients.a[i].isStructured}),
   totalIngredients |-> Len(ingredients.a),
   timedSteps |->
     Cardinality({i \in 1..Len(instructions.a) : instructions.a[i].hasTiming}),
   totalSteps |-> Len(instructions.a),
   hasMise |-> Len(miseEnPlace.a) > 0,
   hasStorage |-> storage # Undefined]

DisplayRecipe(recipe, ingredients, instructions, miseEnPlace, storage, totalTime) ==
  IF \/ IsThrow(ingredients) \/ IsThrow(instructions) \/ IsThrow(miseEnPlace)
     \/ IsThrow(totalTime)
  THEN Throw
  ELSE [k |-> "obj",
        title |-> IF Truthy(recipe.name) THEN recipe.name ELSE Str(S_untitled),
        description |-> recipe.description,
        servings |-> DisplayServings(recipe),
        miseEnPlace |-> miseEnPlace,
        ingredients |-> ingredients,
        instructions |-> instructions,
        storage |-> storage,
        totalTime |-> totalTime,
        stats |-> Stats(ingredients, instructions, miseEnPlace, storage)]

normalizeToDisplay(recipe) ==
  DisplayRecipe(recipe,
                normalizeIngredients(recipe.ingredients),
                normalizeInstructions(recipe.instructions),
                normalizeMiseEnPlace(recipe.miseEnPlace),
                normalizeStorage(recipe.storage),
                DisplayTotalTime(recipe))

(***************************************************************************)
(* Inputs of the normalizer: recipe records, well-formed and malformed.    *)
(***************************************************************************)
\* Words used in the recipes.
W_salt == <<"s", "a", "l", "t">>
W_cups == <<"c", "u", "p", "s">>
W_chopped == <<"c", "h", "o", "p", "p", "e", "d">>
W_fresh == <<"f", "r", "e", "s", "h">>
W_soon == <<"s", "o", "o", "n">>
W_active == <<"a", "c", "t", "i", "v", "e">>
W_golden == <<"g", "o", "l", "d", "e", "n">>
W_stir == <<"s", "t", "i", "r">>
W_servings == <<"s", "e", "r", "v", "i", "n", "g", "s">>
W_soup == <<"s", "o", "u", "p">>

RECURSIVE ListsOver(_, _)
ListsOver(items, n) ==
  IF n = 0 THEN {<<>>}
  ELSE LET shorter == ListsOver(items, n - 1)
       IN  shorter \cup {Append(l, x) : l \in shorter, x \in items}

\* Values found where an array was expected.
NotArrays == {Undefined, Null, Str(<<"n", "o">>), IntNum(3)}

QuantityObject(amount, unit) == [k |-> "obj", amount |-> amount, unit |-> unit]

IngredientItem(quantity, unit, toTaste, scaling, prep, notes) ==
  [k |-> "obj", name |-> Str(W_salt), quantity |-> quantity, unit |-> unit,
   toTaste |-> toTaste, scaling |-> scaling, prep |-> prep, notes |-> notes]

StructuredItems ==
  {IngredientItem(quantity, unit, toTaste, scaling, prep, notes) :
     quantity \in {Undefined, IntNum(2), Str(<<"1", "/", "2">>),
                   QuantityObject(IntNum(2), Str(<<"g">>)),
                   QuantityObject(IntNum(2), Undefined)},
     unit \in {Undefined, Str(W_cups)},
     toTaste \in {Undefined, Bool(TRUE)},
     scaling \in {Undefined, [mode |-> Str(S_toTaste)]},
     prep \in {Undefined, Str(W_chopped)},
     notes \in {Undefined, Str(W_fresh)}}

IngredientItems == StructuredItems \cup {Str(W_salt), Null}

CoreIngredientItems ==
  {Str(W_salt), Null,
   IngredientItem(IntNum(2), Str(W_cups), Undefined, Undefined, Undefined, Undefined)}

IngredientLists ==
  NotArrays \cup {Arr(<<item>>) : item \in IngredientItems}
            \cup {Arr(l) : l \in ListsOver(CoreIngredientItems, MaxItems)}

DurationObject(minutes, minMinutes, maxMinutes, hours) ==
  [k |-> "obj", minutes |-> minutes, minMinutes |-> minMinutes,
   maxMinutes |-> maxMinutes, hours |-> hours]

Durations ==
  {Undefined, IntNum(45), Str(<<"4", "5", "m">>),
   DurationObject(IntNum(45), Undefined, Undefined, Undefined),
   DurationObject(IntNum(90), Undefined, Undefined, Undefined),
   DurationObject(IntNum(120), Undefined, Undefined, Undefined),
   DurationObject(IntNum(0), Undefined, Undefined, Undefined),
   DurationObject(Undefined, IntNum(10), IntNum(15), Undefined),
   DurationObject(IntNum(30), Undefined, Undefined, IntNum(1)),
   DurationObject(Undefined, Undefined, Undefined, IntNum(2)),
   DurationObject(Undefined, Undefined, Undefined, Undefined)}

TimingObject(duration, activity, completionCue) ==
  [k |-> "obj", duration |-> duration, activity |-> activity,
   completionCue |-> completionCue]

Timings ==
  {Undefined, Null, Str(W_soon)}
    \cup {TimingObject(duration, activity, completionCue) :
            duration \in Durations,
            activity \in {Undefined, Str(S_passive), Str(W_active)},
            completionCue \in {Undefined, Str(W_golden)}}

InstructionItem(timing) == [k |-> "obj", text |-> Str(W_stir), timing |-> timing]

InstructionItems == {InstructionItem(timing) : timing \in Timings} \cup {Str(W_stir), Null}

CoreInstructionItems ==
  {Str(W_stir), Null,
   InstructionItem(TimingObject(DurationObject(IntNum(45), Undefined, Undefined, Undefined),
                                Undefined, Undefined)),
   InstructionItem(TimingObject(DurationObject(Undefined, IntNum(10), IntNum(15), Undefined),
                                Undefined, Undefined))}

InstructionLists ==
  NotArrays \cup {Arr(<<item>>) : item \in InstructionItems}
            \cup {Arr(l) : l \in ListsOver(CoreInstructionItems, MaxItems)}

MiseItems ==
  {Str(W_chopped), Str(<<>>), Null,
   [k |-> "obj", text |-> Str(W_fresh)], [k |-> "obj", text |-> Undefined]}

MiseLists == NotArrays \cup {Arr(l) : l \in ListsOver(MiseItems, MaxItems)}

\* The last string matches the hour pattern before, in the text, the day
\* pattern.
IsoStrings ==
  {<<"P", "3", "D">>, <<"P", "1", "D">>, <<"P", "2", "W">>, <<"P", "1", "M">>,
   <<"P", "T", "4", "H">>, <<"P", "T", "3", "0", "M">>,
   <<"P", "3", "D", "T", "4", "H">>, <<>>,
   <<"P", "T", "4", "H", "P", "3", "D">>}

StorageMethods ==
  {Undefined, Str(W_fresh)}
    \cup {[k |-> "obj", duration |-> duration, notes |-> notes] :
            duration \in {Undefined, Str(W_soon), [k |-> "obj", iso8601 |-> Undefined]}
                           \cup {[k |-> "obj", iso8601 |-> Str(iso)] : iso \in IsoStrings},
            notes \in {Undefined, Str(W_fresh), Str(<<"3", " ">> \o S_day \o <<"s">>)}}

Storages ==
  {Undefined, Null, Str(W_fresh)}
    \cup {[k |-> "obj", refrigerated |-> refrigerated, frozen |-> frozen,
           roomTemp |-> roomTemp] :
            refrigerated \in StorageMethods,
            frozen \in {Undefined,
                        [k |-> "obj", duration |-> [k |-> "obj", iso8601 |-> Str(<<"P", "1", "M">>)],
                         notes |-> Undefined]},
            roomTemp \in {Undefined,
                          [k |-> "obj", duration |-> [k |-> "obj", iso8601 |-> Str(<<"P", "T", "4", "H">>)],
                           notes |-> Undefined]}}

Times ==
  {Undefined, [k |-> "obj", total |-> Undefined]}
    \cup {[k |-> "obj", total |-> [k |-> "obj", minutes |-> minutes]] :
            minutes \in {Undefined, IntNum(0), IntNum(45), IntNum(60), IntNum(90)}}

Yields == {Undefined, [k |-> "obj", amount |-> IntNum(4), unit |-> Str(W_servings)]}

BaseRecipe ==
  [k |-> "obj", name |-> Str(W_soup), description |-> Undefined,
   servings |-> Undefined, yield |-> Undefined, time |-> Undefined,
   ingredients |-> Arr(<<>>), instructions |-> Arr(<<>>),
   miseEnPlace |-> Undefined, storage |-> Undefined]

Recipes ==
  {[BaseRecipe EXCEPT !.ingredients = ingredients] : ingredients \in IngredientLists}
    \cup {[BaseRecipe EXCEPT !.instructions = instructions] :
            instructions \in InstructionLists}
    \cup {[BaseRecipe EXCEPT !.miseEnPlace = miseEnPlace] : miseEnPlace \in MiseLists}
    \cup {[BaseRecipe EXCEPT !.storage = storage] : storage \in Storages}
    \cup {[BaseRecipe EXCEPT !.name = name, !.servings = servings, !.yield = yield,
                             !.time = time,
                             !.instructions = instructions] :
            name \in {Undefined, Str(<<>>), Str(W_soup)},
            servings \in {Undefined, Str(<<"4">>)},
            yield \in Yields, time \in Times,
            instructions \in {Arr(<<>>), Arr(<<InstructionItem(TimingObject(
                DurationObject(IntNum(45), Undefined, Undefined, Undefined),
                Undefined, Undefined))>>)}}
    \cup {[BaseRecipe EXCEPT !.ingredients = Arr(ingredients),
                             !.instructions = Arr(instructions),
                             !.miseEnPlace = miseEnPlace] :
            ingredients \in ListsOver(CoreIngredientItems, MaxItems),
            instructions \in ListsOver(CoreInstructionItems, MaxItems),
            miseEnPlace \in {Undefined, Arr(<<Str(W_chopped)>>), Arr(<<Null>>)}}

(***************************************************************************)
(* One call of the normalizer on a recipe record.                          *)
(***************************************************************************)
InitNormalize ==
  /\ pc = "call"
  /\ ret = Pending
  /\ NoApp
  /\ fn = "normalizeToDisplay"
  /\ \E recipe \in Recipes : arg = <<recipe>>

Call_normalizeToDisplay ==
  /\ fn = "normalizeToDisplay"
  /\ pc = "call"
  /\ ret' = normalizeToDisplay(arg[1])
  /\ pc' = "done"
  /\ UNCHANGED <<fn, arg, appVars>>

NextNormalize == Call_normalizeToDisplay

SpecNormalize == InitNormalize /\ [][NextNormalize]_vars

\* C6 (as stated): normalizeToDisplay is total: on every recipe record,
\* with lists absent, not arrays, or holding malformed items, it returns a
\* display record and never throws, and a non-array where an array was
\* expected yields an empty list.
C6_Total ==
  (fn = "normalizeToDisplay" /\ pc = "done") =>
    /\ ~IsThrow(ret)
    /\ ret.ingredients.k = "arr"
    /\ ret.instructions.k = "arr"
    /\ ret.miseEnPlace.k = "arr"
    /\ (arg[1].ingredients.k # "arr" => ret.ingredients = Arr(<<>>))
    /\ (arg[1].instructions.k # "arr" => ret.instructions = Arr(<<>>))
    /\ (arg[1].miseEnPlace.k # "arr" => ret.miseEnPlace = Arr(<<>>))

\* C6: the call on a recipe whose only ingredient is null has thrown.
C6_Witness ==
  /\ fn = "normalizeToDisplay"
  /\ pc = "done"
  /\ arg[1] = [BaseRecipe EXCEPT !.ingredients = Arr(<<Null>>)]
  /\ IsThrow(ret)

(***************************************************************************)
(* Properties of the display record.                                       *)
(***************************************************************************)
\* The call has returned a display record.
Normalized == fn = "normalizeToDisplay" /\ pc = "done" /\ ~IsThrow(ret)

\* The explicit total-time field of a recipe, Undefined when absent.
ExplicitMinutes(recipe) ==
  IF IsObject(recipe.time) /\ IsObject(recipe.time.total)
  THEN recipe.time.total.minutes
  ELSE Undefined

IsPositive(v) == IsNum(v) /\ v.n > 0

\* The sum derived from the instruction timings, Undefined without a list.
DerivedMinutes(recipe) ==
  IF recipe.instructions.k = "arr"
  THEN SumMinutes(recipe.instructions.a, IntNum(0))
  ELSE Undefined

OnlyTiming45 ==
  [BaseRecipe EXCEPT !.instructions =
     Arr(<<InstructionItem(TimingObject(
             DurationObject(IntNum(45), Undefined, Undefined, Undefined),
             Undefined, Undefined))>>)]

\* C11 (as stated): totalTime is the explicit total-time field formatted by
\* the hours/minutes formatter whenever that field is present, otherwise the
\* formatted sum derived from the instruction timings; it is undefined
\* whenever neither is a positive number of minutes; one instruction of 45
\* minutes and no explicit total give "45 min".
C11_TotalTime ==
  Normalized =>
    /\ (ExplicitMinutes(arg[1]) # Undefined
          => ret.totalTime = formatMinutes(ExplicitMinutes(arg[1])))
    /\ (ExplicitMinutes(arg[1]) = Undefined /\ IsPositive(DerivedMinutes(arg[1]))
          => ret.totalTime = formatMinutes(MathRound(DerivedMinutes(arg[1]))))
    /\ (~IsPositive(ExplicitMinutes(arg[1])) /\ ~IsPositive(DerivedMinutes(arg[1]))
          => ret.totalTime = Undefined)
    /\ (arg[1] = OnlyTiming45
          => ret.totalTime = Str(<<"4", "5", " ", "m", "i", "n">>))

\* C11: an explicit total of 0 minutes has been rendered as "0 min".
C11_Witness ==
  /\ Normalized
  /\ arg[1] = [BaseRecipe EXCEPT !.time =
                 [k |-> "obj", total |-> [k |-> "obj", minutes |-> IntNum(0)]]]
  /\ ret.totalTime = Str(<<"0", " ", "m", "i", "n">>)

\* The minutes the aggregator is said to add for one item.
NumOrZero(v) == IF v = Undefined THEN IntNum(0) ELSE v

StatedDurationMinutes(d) ==
  IF d.minMinutes # Undefined /\ d.maxMinutes # Undefined
  THEN Div(Add(d.minMinutes, d.maxMinutes), IntNum(2))
  ELSE IF d.hours # Undefined
  THEN Add(Mul(d.hours, IntNum(60)), NumOrZero(d.minutes))
  ELSE NumOrZero(d.minutes)

StatedItemMinutes(item) ==
  IF IsObject(item) /\ IsObject(item.timing) /\ IsObject(item.timing.duration)
  THEN StatedDurationMinutes(item.timing.duration)
  ELSE IntNum(0)

RECURSIVE StatedSum(_)
StatedSum(items) ==
  IF items = <<>> THEN IntNum(0)
  ELSE Add(StatedItemMinutes(items[1]), StatedSum(Tail(items)))

\* The total time is the derived one: no explicit total is given.
Derived ==
  /\ Normalized
  /\ ~(IsObject(arg[1].time) /\ Truthy(arg[1].time.total))
  /\ arg[1].instructions.k = "arr"

LegacyPair ==
  [BaseRecipe EXCEPT !.instructions =
     Arr(<<InstructionItem(TimingObject(
             DurationObject(IntNum(30), Undefined, Undefined, IntNum(1)),
             Undefined, Undefined))>>)]

\* C12 (as stated): calculateTotalTime sums over the structured
\* instructions: minutes for a single-minutes duration, (min + max) / 2 for
\* a range, hours*60 + minutes for a legacy pair, 0 for an instruction
\* without a duration or a string; the sum is rounded once at the end and a
\* sum of 0 gives undefined.
C12_DerivedSum ==
  Derived =>
    ret.totalTime =
      (IF StatedSum(arg[1].instructions.a) = IntNum(0) THEN Undefined
       ELSE formatMinutes(MathRound(StatedSum(arg[1].instructions.a))))

\* C12: the legacy pair {hours: 1, minutes: 30} has been totalled as 30 min.
C12_Witness ==
  /\ Derived
  /\ arg[1] = LegacyPair
  /\ ret.totalTime = Str(<<"3", "0", " ", "m", "i", "n">>)

EndsWith(s, suffix) ==
  /\ Len(s) >= Len(suffix)
  /\ SubSeq(s, Len(s) - Len(suffix) + 1, Len(s)) = suffix

\* The i-th instruction of the recipe carries a timing object.
TimedAt(i) ==
  /\ IsObject(arg[1].instructions.a[i])
  /\ IsObject(arg[1].instructions.a[i].timing)

\* C13 (as stated): a passive timing for which formatTiming produces any
\* output, from a duration or from a completion cue, ends with " (passive)".
C13_PassiveSuffix ==
  (Normalized /\ arg[1].instructions.k = "arr") =>
    \A i \in 1..Len(arg[1].instructions.a) :
      (/\ TimedAt(i)
       /\ arg[1].instructions.a[i].timing.activity = Str(S_passive)
       /\ ret.instructions.a[i].timing # Undefined)
        => EndsWith(ret.instructions.a[i].timing.s, S_passiveSuffix)

\* C13: a passive timing with only a completion cue has been rendered as
\* the bare cue.
C13_Witness ==
  /\ Normalized
  /\ arg[1] = [BaseRecipe EXCEPT !.instructions =
                 Arr(<<InstructionItem(TimingObject(Undefined, Str(S_passive),
                                                    Str(W_golden)))>>)]
  /\ ret.instructions.a[1].timing = Str(W_golden)

\* The text said to render a legacy {hours, minutes} pair.
StatedLegacyParts(d) ==
  (IF Truthy(d.hours) THEN <<JsString(d.hours) \o <<"h">>>> ELSE <<>>)
    \o (IF Truthy(d.minutes) THEN <<JsString(d.minutes) \o <<"m">>>> ELSE <<>>)

IsLegacyPair(d) ==
  IsObject(d) /\ d.hours # Undefined /\ d.minMinutes = Undefined

\* C14 (as stated): a legacy {hours, minutes} duration renders each present
\* non-zero component, hours as "<h>h" and minutes as "<m>m", joined by a
\* space in that order (before any passive suffix).
C14_LegacyPair ==
  (Normalized /\ arg[1].instructions.k = "arr") =>
    \A i \in 1..Len(arg[1].instructions.a) :
      (TimedAt(i) /\ IsLegacyPair(arg[1].instructions.a[i].timing.duration))
        => ret.instructions.a[i].timing =
             Str(Join(StatedLegacyParts(arg[1].instructions.a[i].timing.duration))
                 \o (IF arg[1].instructions.a[i].timing.activity = Str(S_passive)
                     THEN S_passiveSuffix ELSE <<>>))

\* C14: the legacy pair {hours: 1, minutes: 30} has been rendered as "30m".
C14_Witness ==
  /\ Normalized
  /\ arg[1] = LegacyPair
  /\ ret.instructions.a[1].timing = Str(<<"3", "0", "m">>)

Locations == {"refrigerated", "frozen", "roomTemp"}

\* The storage method of a location is present and carries a duration.
Carries(method) == IsObject(method) /\ Truthy(method.duration)

\* The ISO-8601 string of a method, <<>> when it has none.
IsoOf(method) ==
  IF IsObject(method.duration) /\ method.duration.iso8601.k = "str"
  THEN method.duration.iso8601.s
  ELSE <<>>

\* iso holds, from position i, the prefix, n digits and the unit letter.
CountAt(iso, i, n, prefix, unit) ==
  /\ i + Len(prefix) + n <= Len(iso)
  /\ SubSeq(iso, i, i + Len(prefix) - 1) = prefix
  /\ AllDigits(SubSeq(iso, i + Len(prefix), i + Len(prefix) + n - 1))
  /\ iso[i + Len(prefix) + n] = unit

HasCount(iso, prefix, unit) ==
  \E i \in 1..Len(iso), n \in 1..Len(iso) : CountAt(iso, i, n, prefix, unit)

\* The count of the first occurrence of the pattern in iso.
FirstCount(iso, prefix, unit) ==
  LET i == CHOOSE i \in 1..Len(iso) :
             /\ \E n \in 1..Len(iso) : CountAt(iso, i, n, prefix, unit)
             /\ \A j \in 1..(i - 1) :
                  ~\E n \in 1..Len(iso) : CountAt(iso, j, n, prefix, unit)
      n == CHOOSE n \in 1..Len(iso) : CountAt(iso, i, n, prefix, unit)
  IN  DigitsValue(SubSeq(iso, i + Len(prefix), i + Len(prefix) + n - 1))

Matched(iso) ==
  \/ HasCount(iso, <<"P">>, "D") \/ HasCount(iso, <<"P">>, "W")
  \/ HasCount(iso, <<"P">>, "M") \/ HasCount(iso, <<"P", "T">>, "H")

Wording(count, unit) ==
  IF count = 1 THEN <<"1", " ">> \o unit
  ELSE NatToStr(count) \o <<" ">> \o unit \o <<"s">>

\* The text of the first pattern, in priority order, that iso matches.
ParsedText(iso) ==
  IF HasCount(iso, <<"P">>, "D")
  THEN Wording(FirstCount(iso, <<"P">>, "D"), S_day)
  ELSE IF HasCount(iso, <<"P">>, "W")
  THEN Wording(FirstCount(iso, <<"P">>, "W"), S_week)
  ELSE IF HasCount(iso, <<"P">>, "M")
  THEN Wording(FirstCount(iso, <<"P">>, "M"), S_month)
  ELSE Wording(FirstCount(iso, <<"P", "T">>, "H"), S_hour)

\* C15 (as stated): when the ISO-8601 string is absent, or matches none of
\* P<n>D, P<n>W, P<n>M, PT<n>H, formatStorageDuration gives the note if there
\* is one and otherwise 'Duration not specified'; the raw ISO string is
\* never shown.
C15_StorageFallback ==
  (Normalized /\ IsObject(arg[1].storage)) =>
    \A loc \in Locations :
      (Carries(arg[1].storage[loc]) /\ ~Matched(IsoOf(arg[1].storage[loc])))
        => ret.storage[loc] =
             (IF Truthy(arg[1].storage[loc].notes) THEN arg[1].storage[loc].notes
              ELSE Str(S_notSpecified))

StorageOf(refrigerated) ==
  [BaseRecipe EXCEPT !.storage =
     [k |-> "obj", refrigerated |-> refrigerated, frozen |-> Undefined,
      roomTemp |-> Undefined]]

MethodOf(iso, notes) ==
  [k |-> "obj", duration |-> [k |-> "obj", iso8601 |-> Str(iso)], notes |-> notes]

\* C15: the unmatched string PT30M without a note has been shown raw.
C15_Witness ==
  /\ Normalized
  /\ arg[1] = StorageOf(MethodOf(<<"P", "T", "3", "0", "M">>, Undefined))
  /\ ret.storage.refrigerated = Str(<<"P", "T", "3", "0", "M">>)

\* C16: formatStorageDuration renders the first of day, week, month and
\* hour count that the ISO-8601 string matches, singular for 1 and plural
\* otherwise; a non-empty note that differs from the parsed text is the
\* result, otherwise the parsed text is.
C16_StorageParsed ==
  (Normalized /\ IsObject(arg[1].storage)) =>
    \A loc \in Locations :
      (Carries(arg[1].storage[loc]) /\ Matched(IsoOf(arg[1].storage[loc])))
        => ret.storage[loc] =
             (IF /\ Truthy(arg[1].storage[loc].notes)
                 /\ arg[1].storage[loc].notes
                      # Str(ParsedText(IsoOf(arg[1].storage[loc])))
              THEN arg[1].storage[loc].notes
              ELSE Str(ParsedText(IsoOf(arg[1].storage[loc]))))

\* C16: PT4HP3D has been rendered by its day count, and P3D with a note by
\* the note.
C16_Witness ==
  /\ Normalized
  /\ \/ /\ arg[1] = StorageOf(MethodOf(<<"P", "T", "4", "H", "P", "3", "D">>, Undefined))
        /\ ret.storage.refrigerated = Str(<<"3", " ", "d", "a", "y", "s">>)
     \/ /\ arg[1] = StorageOf(MethodOf(<<"P", "3", "D">>, Str(W_fresh)))
        /\ ret.storage.refrigerated = Str(W_fresh)

\* C17: the storage section has an entry for exactly the locations that are
\* present and carry a duration; it is undefined when there is none, and
\* stats.hasStorage is true exactly when it is present.
C17_StorageSection ==
  Normalized =>
    IF IsObject(arg[1].storage) /\ \E loc \in Locations : Carries(arg[1].storage[loc])
    THEN /\ IsObject(ret.storage)
         /\ \A loc \in Locations :
              ret.storage[loc] # Undefined <=> Carries(arg[1].storage[loc])
         /\ \A loc \in Locations :
              ret.storage[loc] # Undefined => ret.storage[loc].k = "str"
         /\ ret.stats.hasStorage
    ELSE ret.storage = Undefined /\ ~ret.stats.hasStorage

\* C17: of a method without duration and a frozen method with one, only the
\* frozen entry has been produced.
C17_Witness ==
  /\ Normalized
  /\ IsObject(arg[1].storage)
  /\ IsObject(arg[1].storage.refrigerated)
  /\ ~Carries(arg[1].storage.refrigerated)
  /\ Carries(arg[1].storage.frozen)
  /\ ~Carries(arg[1].storage.roomTemp)
  /\ ret.storage.refrigerated = Undefined
  /\ ret.storage.frozen = Str(<<"1", " ">> \o S_month)
  /\ ret.stats.hasStorage

\* The items of a list of the recipe, none when it is not an array.
ItemsOf(list) == IF list.k = "arr" THEN list.a ELSE <<>>

\* To-taste is set by the flag or by scaling.mode.
StatedToTaste(item) ==
  \/ item.toTaste = Bool(TRUE)
  \/ (item.scaling # Undefined /\ item.scaling.mode = Str(S_toTaste))

\* The quantity of the text: the structured amount, else the bare quantity.
StatedQuantity(item) ==
  IF IsObject(item.quantity) /\ item.quantity.amount # Undefined
  THEN Str(JsString(item.quantity.amount))
  ELSE IF item.quantity # Undefined THEN Str(JsString(item.quantity))
  ELSE Undefined

\* The unit of the text: the structured quantity's, else the standalone one.
StatedUnit(item) ==
  IF IsObject(item.quantity) /\ item.quantity.unit # Undefined
  THEN item.quantity.unit
  ELSE item.unit

Present(v) == IF v = Undefined THEN <<>> ELSE <<v.s>>

StatedText(item) ==
  Join(Present(StatedQuantity(item)) \o Present(StatedUnit(item))
       \o <<item.name.s>>
       \o (IF StatedToTaste(item) THEN <<S_toTasteMark>> ELSE <<>>)
       \o (IF item.prep # Undefined
           THEN <<<<"(">> \o item.prep.s \o <<")">>>> ELSE <<>>)
       \o (IF item.notes # Undefined
           THEN <<S_dash \o <<" ">> \o item.notes.s>> ELSE <<>>))

\* C18 (as stated): the text of a structured ingredient is the space-joined
\* quantity (structured amount, else bare quantity), unit (the structured
\* quantity's, else the standalone one), name, "(to taste)", preparation in
\* parentheses and notes after an em-dash; the unit field is the unit of the
\* text.
C18_IngredientText ==
  Normalized =>
    \A i \in 1..Len(ItemsOf(arg[1].ingredients)) :
      IsObject(arg[1].ingredients.a[i]) =>
        /\ ret.ingredients.a[i].text = Str(StatedText(arg[1].ingredients.a[i]))
        /\ ret.ingredients.a[i].unit = StatedUnit(arg[1].ingredients.a[i])

\* C18: a structured quantity without unit beside a standalone unit has
\* been rendered without the unit, which the unit field still names.
C18_Witness ==
  /\ Normalized
  /\ arg[1] = [BaseRecipe EXCEPT !.ingredients =
                 Arr(<<IngredientItem(QuantityObject(IntNum(2), Undefined),
                                      Str(W_cups), Undefined, Undefined,
                                      Undefined, Undefined)>>)]
  /\ ret.ingredients.a[1].text = Str(<<"2", " ">> \o W_salt)
  /\ ret.ingredients.a[1].unit = Str(W_cups)

\* C19: isStructured is true exactly for a structured record in which a
\* quantity, a unit, to-taste (flag or scaling.mode) or a preparation is
\* present; it is false for a string item and for a record with only a
\* name and notes.
C19_IsStructured ==
  Normalized =>
    \A i \in 1..Len(ItemsOf(arg[1].ingredients)) :
      ret.ingredients.a[i].isStructured
        <=> /\ IsObject(arg[1].ingredients.a[i])
            /\ \/ arg[1].ingredients.a[i].quantity # Undefined
               \/ arg[1].ingredients.a[i].unit # Undefined
               \/ StatedToTaste(arg[1].ingredients.a[i])
               \/ arg[1].ingredients.a[i].prep # Undefined

\* C19: a record with only a name and a preparation has been flagged
\* structured.
C19_Witness ==
  /\ Normalized
  /\ arg[1] = [BaseRecipe EXCEPT !.ingredients =
                 Arr(<<IngredientItem(Undefined, Undefined, Undefined, Undefined,
                                      Str(W_chopped), Undefined)>>)]
  /\ ret.ingredients.a[1].isStructured

\* C20: the stats block agrees with the record: the ingredient and step
\* totals are the numbers of input items, identifiers are ing-i and step-i
\* by position, structuredIngredients and timedSteps count the isStructured
\* and hasTiming entries and do not exceed the totals, hasTiming is true
\* exactly when a timing string was produced, and hasMise exactly when the
\* mise-en-place list is non-empty.
C20_Stats ==
  Normalized =>
    /\ ret.stats.totalIngredients = Len(ItemsOf(arg[1].ingredients))
    /\ Len(ret.ingredients.a) = Len(ItemsOf(arg[1].ingredients))
    /\ \A i \in 1..Len(ret.ingredients.a) :
         ret.ingredients.a[i].id = Str(<<"i", "n", "g", "-">> \o NatToStr(i - 1))
    /\ ret.stats.totalSteps = Len(ItemsOf(arg[1].instructions))
    /\ Len(ret.instructions.a) = Len(ItemsOf(arg[1].instructions))
    /\ \A i \in 1..Len(ret.instructions.a) :
         /\ ret.instructions.a[i].id
              = Str(<<"s", "t", "e", "p", "-">> \o NatToStr(i - 1))
         /\ ret.instructions.a[i].hasTiming
              <=> ret.instructions.a[i].timing.k = "str"
    /\ ret.stats.structuredIngredients
         = Cardinality({i \in 1..Len(ret.ingredients.a) :
                          ret.ingredients.a[i].isStructured})
    /\ ret.stats.structuredIngredients <= ret.stats.totalIngredients
    /\ ret.stats.timedSteps
         = Cardinality({i \in 1..Len(ret.instructions.a) :
                          ret.instructions.a[i].hasTiming})
    /\ ret.stats.timedSteps <= ret.stats.totalSteps
    /\ ret.stats.hasMise <=> Len(ret.miseEnPlace.a) > 0

\* C20: a recipe with a string and a structured ingredient, a string and a
\* timed step and one mise item has been counted.
C20_Witness ==
  /\ Normalized
  /\ Len(ItemsOf(arg[1].ingredients)) = 2
  /\ Len(ItemsOf(arg[1].instructions)) = 2
  /\ ret.stats.structuredIngredients = 1
  /\ ret.stats.timedSteps = 1
  /\ ret.stats.hasMise
  /\ ret.ingredients.a[2].id = Str(<<"i", "n", "g", "-", "1">>)
  /\ ret.instructions.a[2].id = Str(<<"s", "t", "e", "p", "-", "1">>)

(***************************************************************************)
(* Two invocations of normalizeToDisplay, or of scaleIngredient, on the    *)
(* same input.                                                             *)
(***************************************************************************)
InitTwice ==
  /\ pc = "call"
  /\ ret = Pending
  /\ NoApp
  /\ \/ /\ fn = "normalizeToDisplay"
        /\ \E recipe \in Recipes : arg = <<recipe>>
     \/ /\ fn = "scaleIngredient"
        /\ \E ingredient \in Ingredients, scaleFactor \in Factors :
             arg = <<ingredient, scaleFactor>>

Again_normalizeToDisplay ==
  /\ fn = "normalizeToDisplay" /\ pc = "done"
  /\ ret' = normalizeToDisplay(arg[1])
  /\ pc' = "again"
  /\ UNCHANGED <<fn, arg, appVars>>

Again_scaleIngredient ==
  /\ fn = "scaleIngredient" /\ pc = "done"
  /\ ret' = scaleIngredient(arg[1], arg[2])
  /\ pc' = "again"
  /\ UNCHANGED <<fn, arg, appVars>>

NextTwice ==
  \/ Call_normalizeToDisplay
  \/ Call_scaleIngredient
  \/ Again_normalizeToDisplay
  \/ Again_scaleIngredient

SpecTwice == InitTwice /\ [][NextTwice]_vars

IsWordChar(c) ==
  \/ IsDigit(c)
  \/ c = "_"
  \/ \E i \in 1..26 : LowerChars[i] = c \/ UpperChars[i] = c

IsQuantityChar(c) == IsDigit(c) \/ IsSpace(c) \/ c = "/"

RECURSIVE WordRun(_)
WordRun(s) == IF s # <<>> /\ IsWordChar(s[1]) THEN 1 + WordRun(Tail(s)) ELSE 0

RECURSIVE QuantityRun(_)
QuantityRun(s) ==
  IF s # <<>> /\ IsQuantityChar(s[1]) THEN 1 + QuantityRun(Tail(s)) ELSE 0

\* /^([\d\s\/]+)?\s*(\w+)?\s+(.+)$/ splits s at <<a, b, c, d>>: group 1 is
\* s[1..a], \s* is s[a+1..b], group 2 is s[b+1..c], \s+ is s[c+1..d] and
\* group 3 the non-empty rest.
IngredientSplits(s) ==
  UNION {UNION {UNION {{<<a, b, c, d>> :
                          d \in {e \in (c + 1)..(c + SpaceRun(Drop(s, c))) :
                                   e < Len(s)}} :
                       c \in b..(b + WordRun(Drop(s, b)))} :
                b \in a..(a + SpaceRun(Drop(s, a)))} :
         a \in 0..QuantityRun(s)}

\* t is tried before u by the greedy quantifiers.
TriedBefore(t, u) ==
  \/ t[1] > u[1]
  \/ t[1] = u[1] /\ t[2] > u[2]
  \/ t[1] = u[1] /\ t[2] = u[2] /\ t[3] > u[3]
  \/ t[1] = u[1] /\ t[2] = u[2] /\ t[3] = u[3] /\ t[4] >= u[4]

\* The match the engine returns: the first split tried that succeeds.
IngredientMatch(s) ==
  CHOOSE t \in IngredientSplits(s) : \A u \in IngredientSplits(s) : TriedBefore(t, u)

ParsedString(s, t) ==
  [name |-> Drop(s, t[4]),
   quantity |-> IF t[1] = 0 THEN Undefined ELSE Str(Trim(Take(s, t[1]))),
   unit |-> IF t[3] = t[2] THEN Undefined ELSE Str(SubSeq(s, t[2] + 1, t[3])),
   scaling |-> Undefined]

\* parseIngredient(item): a ScalableIngredient or Null.
parseIngredient(item) ==
  IF item.k = "str"
  THEN IF IngredientSplits(item.s) # {}
       THEN ParsedString(item.s, IngredientMatch(item.s))
       ELSE [name |-> item.s, quantity |-> Undefined, unit |-> Undefined,
             scaling |-> Undefined]
  ELSE IF IsObject(item)
  THEN IF item.section # Undefined THEN Null
       ELSE IF item.name.k = "str"
       THEN [name |-> item.name.s, quantity |-> item.quantity,
             unit |-> item.unit, scaling |-> item.scaling]
       ELSE Null
  ELSE Null

\* The test of lines 112-113, 179-181 and 199-201 on a parsed ingredient.
ItemCanScale(parsed) ==
  /\ ScalingMode(parsed) # Str(S_toTaste)
  /\ ScalingMode(parsed) # Str(S_fixed)
  /\ parsed.quantity # Undefined

hasScalableIngredients(ingredients) ==
  \E i \in 1..Len(ingredients) :
    /\ parseIngredient(ingredients[i]) # Null
    /\ ItemCanScale(parseIngredient(ingredients[i]))

HookOriginalServings(props) == parseServings(props.servings)

canScale(props) ==
  /\ props.scalingEnabled
  /\ HookOriginalServings(props) # Null
  /\ hasScalableIngredients(props.ingredients)

\* The factor computed without looking at canScale.
HookScaleFactor_IgnoreCanScale(props, target) ==
  IF HookOriginalServings(props) = Null THEN IntNum(1)
  ELSE calculateScaleFactor(HookOriginalServings(props), target)

HookScaleFactor(props, target) ==
  IF ~canScale(props) \/ HookOriginalServings(props) = Null THEN IntNum(1)
  ELSE calculateScaleFactor(HookOriginalServings(props), target)

\* The items of a list that parseIngredient accepts, parsed, in order.
RECURSIVE ParsedItems(_)
ParsedItems(items) ==
  IF items = <<>> THEN <<>>
  ELSE (IF parseIngredient(Head(items)) = Null THEN <<>>
        ELSE <<parseIngredient(Head(items))>>) \o ParsedItems(Tail(items))

\* The loop of scaledIngredients: a section gives its items, any other item
\* itself.  (A string item always parses, so the branch of lines 203-213 is
\* never taken.)
RECURSIVE FlattenIngredients(_)
FlattenIngredients(ingredients) ==
  IF ingredients = <<>> THEN <<>>
  ELSE (IF IsObject(Head(ingredients)) /\ Head(ingredients).section # Undefined
        THEN ParsedItems(Head(ingredients).section.items)
        ELSE ParsedItems(<<Head(ingredients)>>))
         \o FlattenIngredients(Tail(ingredients))

ScaledIngredientEntry(parsed, idx, result) ==
  [id |-> <<"i", "n", "g", "-">> \o NatToStr(idx),
   original |-> formatIngredientDisplay(parsed),
   scaled |-> result.display,
   isScaled |-> result.scaled,
   canScale |-> ItemCanScale(parsed)]

ScaledIngredientItem(parsed, idx, factor) ==
  ScaledIngredientEntry(parsed, idx, scaleIngredient(parsed, factor))

ScaledItems(parsed, factor) ==
  [i \in 1..Len(parsed) |-> ScaledIngredientItem(parsed[i], i - 1, factor)]

scaledIngredients(ingredients, factor) ==
  ScaledItems(FlattenIngredients(ingredients), factor)

\* What the hook returns when its state targetServings is target.
HookResult(props, target, factor) ==
  [canScale |-> canScale(props),
   originalServings |-> HookOriginalServings(props),
   targetServings |-> target,
   scaleFactor |-> factor,
   scaledIngredients |-> scaledIngredients(props.ingredients, factor),
   isScaled |-> factor # IntNum(1)]

useRecipeScaling(props, target) ==
  HookResult(props, target, HookScaleFactor(props, target))

(***************************************************************************)
(* Inputs of the hook.                                                     *)
(***************************************************************************)
MaxTarget == 5

HookItem(quantity, unit, scaling) ==
  [k |-> "obj", name |-> Str(W_salt), quantity |-> quantity, unit |-> unit,
   scaling |-> scaling, section |-> Undefined]

SectionItem(items) ==
  [k |-> "obj", name |-> Undefined, quantity |-> Undefined, unit |-> Undefined,
   scaling |-> Undefined,
   section |-> [name |-> Str(W_soup), items |-> items]]

HookQuantities ==
  {Undefined, Null, Str(<<>>), Str(<<"a", "b", "c">>), Str(<<"1", "/", "0">>),
   Str(<<"1", "/", "2">>), IntNum(2), Rat(1, 4), IntNum(0)}

HookObjects ==
  {HookItem(quantity, unit, Undefined) :
     quantity \in HookQuantities, unit \in {Undefined, Str(<<"g">>)}}
    \cup {HookItem(quantity, Undefined, scaling) :
            quantity \in {IntNum(2), Null},
            scaling \in {[mode |-> Str(S_toTaste)], [mode |-> Str(S_fixed)]}}

HookStrings ==
  {Str(W_salt), Str(<<"2", " ", "e", "g", "g", "s">>),
   Str(<<"2", " ", "c", " ", "r", "i", "c", "e">>),
   Str(<<"e", "g", "g", " ", "y", "o", "l", "k">>),
   Str(<<" ", "s", "a", "l", "t", " ", "x">>)}

\* The items that lists of several items and sections are built from.
CoreHookItems ==
  {Null,
   HookItem(IntNum(2), Str(W_cups), Undefined),
   HookItem(Str(<<"a", "b", "c">>), Undefined, Undefined)}

HookItems ==
  HookObjects \cup HookStrings
    \cup {Null, [HookItem(IntNum(2), Undefined, Undefined) EXCEPT !.name = IntNum(3)]}
    \cup {SectionItem(l) : l \in ListsOver(CoreHookItems, 1)}

HookIngredientLists ==
  {<<item>> : item \in HookItems} \cup ListsOver(CoreHookItems, MaxItems)

HookServings ==
  {Undefined, Str(<<"v", "a", "r", "i", "e", "s">>), Str(<<"0">>), Str(<<"2">>),
   Str(<<"4", " ", "s", "e", "r", "v", "i", "n", "g", "s">>)}

HookProps ==
  [servings : HookServings, ingredients : HookIngredientLists,
   scalingEnabled : BOOLEAN]

\* The numbers a caller passes to setTargetServings.
TargetValues ==
  {NaN, Inf(1), IntNum(0), Rat(3, 2)}

(***************************************************************************)
(* The hook as a state machine: arg holds the props, targetState the state *)
(* targetServings, pc the handler that ran last.  A handler only sets the  *)
(* state; what the hook returns on the render that follows is a function   *)
(* of the props and the state, Rendered.  The props stay the same, so the  *)
(* effect of lines 125-129 only repeats the initial state.                 *)
(***************************************************************************)
Rendered == useRecipeScaling(arg[1], targetState)

InitHook ==
  /\ fn = "useRecipeScaling"
  /\ pc = "mount"
  /\ ret = Pending
  /\ \E props \in HookProps :
       /\ arg = <<props>>
       /\ targetState = IF HookOriginalServings(props) # Null
                        THEN HookOriginalServings(props) ELSE IntNum(4)
  /\ recipeStore = <<>>
  /\ inflight = <<>>
  /\ now = 0

setTargetServings ==
  /\ fn = "useRecipeScaling"
  /\ \E value \in TargetValues :
       targetState' = MathMax(IntNum(1), MathRound(value))
  /\ pc' = "setTargetServings"
  /\ UNCHANGED <<fn, arg, ret, recipeStore, inflight, now>>

\* The model stops incrementing at MaxTarget.
incrementServings ==
  /\ fn = "useRecipeScaling"
  /\ IsNum(targetState) => Lt(targetState, IntNum(MaxTarget))
  /\ targetState' = Add(targetState, IntNum(1))
  /\ pc' = "incrementServings"
  /\ UNCHANGED <<fn, arg, ret, recipeStore, inflight, now>>

decrementServings ==
  /\ fn = "useRecipeScaling"
  /\ targetState' = MathMax(IntNum(1), Sub(targetState, IntNum(1)))
  /\ pc' = "decrementServings"
  /\ UNCHANGED <<fn, arg, ret, recipeStore, inflight, now>>

\* resetServings leaving the state as it is.
resetServings_Keep ==
  /\ fn = "useRecipeScaling"
  /\ pc' = "resetServings"
  /\ UNCHANGED <<fn, arg, ret, targetState, recipeStore, inflight, now>>

resetServings ==
  /\ fn = "useRecipeScaling"
  /\ targetState' = IF HookOriginalServings(arg[1]) # Null
                    THEN HookOriginalServings(arg[1]) ELSE targetState
  /\ pc' = "resetServings"
  /\ UNCHANGED <<fn, arg, ret, recipeStore, inflight, now>>

NextHook ==
  \/ setTargetServings
  \/ incrementServings
  \/ decrementServings
  \/ resetServings

SpecHook == InitHook /\ [][NextHook]_vars

\* C22 (as stated): an ingredient whose quantity does not parse is kept in
\* scaledIngredients with isScaled = FALSE and canScale = FALSE at every
\* target servings, and a recipe whose only ingredient it is has canScale
\* FALSE.
Unparseable(item) ==
  /\ IsObject(item)
  /\ parseIngredient(item) # Null
  /\ item.quantity # Undefined
  /\ parseQuantity(item.quantity) = Null

OnlyUnparseable ==
  /\ Len(arg[1].ingredients) = 1
  /\ Unparseable(arg[1].ingredients[1])

C22_Unparseable ==
  (fn = "useRecipeScaling" /\ OnlyUnparseable) =>
    /\ Len(Rendered.scaledIngredients) = 1
    /\ ~Rendered.scaledIngredients[1].isScaled
    /\ ~Rendered.scaledIngredients[1].canScale
    /\ ~Rendered.canScale

\* The quantity 'abc' with the label '4 servings', scaling enabled, after
\* incrementServings.
C22_Witness ==
  /\ fn = "useRecipeScaling" /\ pc = "incrementServings"
  /\ arg[1].scalingEnabled
  /\ HookOriginalServings(arg[1]) = IntNum(4)
  /\ targetState = IntNum(5)
  /\ arg[1].ingredients = <<HookItem(Str(<<"a", "b", "c">>), Undefined, Undefined)>>
  /\ Len(Rendered.scaledIngredients) = 1
  /\ ~Rendered.scaledIngredients[1].isScaled

NoItemScaled(result) ==
  \A i \in 1..Len(result.scaledIngredients) : ~result.scaledIngredients[i].isScaled

\* C23: a step of resetServings, whatever handlers ran before it, ends with
\* targetServings = originalServings, scaleFactor = 1, isScaled = FALSE and
\* no item scaled when the servings label parses, and leaves targetServings
\* unchanged when it does not.
C23_Reset ==
  /\ [](/\ fn = "useRecipeScaling" /\ pc = "resetServings"
        /\ HookOriginalServings(arg[1]) # Null
        => /\ targetState = HookOriginalServings(arg[1])
           /\ Rendered.targetServings = Rendered.originalServings
           /\ Rendered.scaleFactor = IntNum(1)
           /\ ~Rendered.isScaled
           /\ NoItemScaled(Rendered))
  /\ [][(/\ fn = "useRecipeScaling" /\ pc' = "resetServings"
         /\ HookOriginalServings(arg[1]) = Null)
        => targetState' = targetState]_vars

\* A reset of a recipe that can be scaled, 4 servings with 2 cups of salt.
C23_Witness ==
  /\ fn = "useRecipeScaling" /\ pc = "resetServings"
  /\ Rendered.canScale
  /\ Rendered.originalServings = IntNum(4)
  /\ targetState = IntNum(4)
  /\ arg[1].ingredients = <<HookItem(IntNum(2), Str(W_cups), Undefined)>>
  /\ Rendered.scaledIngredients[1].canScale

\* C24: in every reachable state, canScale FALSE gives scaleFactor 1 and no
\* scaled item; canScale TRUE with originalServings > 0 gives scaleFactor =
\* targetServings / originalServings and isScaled exactly when the two differ.
C24_ScaleFactor ==
  fn = "useRecipeScaling" =>
    /\ ~Rendered.canScale =>
         /\ Rendered.scaleFactor = IntNum(1)
         /\ NoItemScaled(Rendered)
    /\ (Rendered.canScale /\ Lt(IntNum(0), Rendered.originalServings)) =>
         /\ Rendered.scaleFactor = Div(targetState, Rendered.originalServings)
         /\ Rendered.isScaled <=> (targetState # Rendered.originalServings)

\* Scaling is disabled, the label parses, an ingredient is scalable and the
\* target was moved away from the original.
C24_Witness ==
  /\ fn = "useRecipeScaling"
  /\ ~arg[1].scalingEnabled
  /\ Rendered.originalServings = IntNum(4)
  /\ targetState = IntNum(5)
  /\ hasScalableIngredients(arg[1].ingredients)
  /\ Rendered.scaleFactor = IntNum(1)

\* C26 (as stated): targetServings is an integer >= 1 in every reachable
\* state, for every servings label and every number given to
\* setTargetServings.
C26_TargetInteger ==
  fn = "useRecipeScaling" =>
    /\ IsNum(targetState)
    /\ targetState.d = 1
    /\ targetState.n >= 1

\* setTargetServings was given NaN.
C26_Witness ==
  /\ fn = "useRecipeScaling" /\ pc = "setTargetServings"
  /\ IsNaN(targetState)
  /\ Rendered.originalServings = IntNum(4)

(***************************************************************************)
(* scaleIngredient at the factor 1 and on small quantities (under Spec).   *)
(***************************************************************************)
\* The ingredient takes the multiply-round-format path of scaleIngredient.
Multiplied(ingredient) ==
  /\ ScalingMode(ingredient) # Str(S_toTaste)
  /\ ScalingMode(ingredient) # Str(S_fixed)
  /\ parseQuantity(ingredient.quantity) # Null

UnitOf(ingredient) == IF Truthy(ingredient.unit) THEN ingredient.unit.s ELSE <<>>

\* The quantity scaleIngredient formats.
RoundedQuantity(ingredient, factor) ==
  roundToSensible(Mul(parseQuantity(ingredient.quantity), factor), UnitOf(ingredient))

\* roundToSensible leaves the parsed quantity as it is.
Unrounded(ingredient) ==
  RoundedQuantity(ingredient, IntNum(1)) = parseQuantity(ingredient.quantity)

RoundedDisplay(ingredient, factor) ==
  Join(<<formatQuantity(RoundedQuantity(ingredient, factor))>>
         \o (IF UnitOf(ingredient) # <<>> THEN <<UnitOf(ingredient)>> ELSE <<>>)
         \o <<ingredient.name>>)

HalfStep(unit) ==
  IF toLowerCase(unit) \in QuarterUnits \cup CupUnits THEN Rat(1, 8)
  ELSE IF toLowerCase(unit) \in OunceUnits THEN Rat(1, 4)
  ELSE IF toLowerCase(unit) \in GramUnits \cup MilliliterUnits THEN Rat(5, 2)
  ELSE IF toLowerCase(unit) \in CountUnits THEN Rat(1, 2)
  ELSE Rat(1, 200)

\* A proportional ingredient with a positive quantity was scaled by a
\* positive factor.
PositiveScaled ==
  /\ Returned("scaleIngredient")
  /\ Proportional(arg[1])
  /\ parseQuantity(arg[1].quantity) # Null
  /\ Lt(IntNum(0), parseQuantity(arg[1].quantity))
  /\ Lt(IntNum(0), arg[2])

Card_parseQuantityText(str) ==
  IF FractionMatch(str)
  THEN Div(parseInt(FractionNum(str)), parseInt(FractionDenom(str)))
  ELSE IF MixedMatch(str)
  THEN Add(parseInt(MixedWhole(str)),
           Div(parseInt(FractionNum(MixedFraction(str))),
               parseInt(FractionDenom(MixedFraction(str)))))
  ELSE NullIfNaN(parseFloat(str))

Card_parseQuantity(qty) ==
  IF qty = Undefined \/ qty = Null \/ qty = Str(<<>>) THEN Null
  ELSE IF qty.k # "str" THEN qty
  ELSE Card_parseQuantityText(Trim(qty.s))

Card_fractions ==
  <<[v |-> Rat(125, 1000), g |-> "<1/8>"], [v |-> Rat(25, 100), g |-> "<1/4>"],
    [v |-> Rat(333, 1000), g |-> "<1/3>"], [v |-> Rat(375, 1000), g |-> "<3/8>"],
    [v |-> Rat(5, 10), g |-> "<1/2>"], [v |-> Rat(625, 1000), g |-> "<5/8>"],
    [v |-> Rat(666, 1000), g |-> "<2/3>"], [v |-> Rat(75, 100), g |-> "<3/4>"],
    [v |-> Rat(875, 1000), g |-> "<7/8>"]>>

\* The entries of the table that frac is within 0.02 of.
Card_FractionHits(frac) ==
  {i \in 1..Len(Card_fractions) :
     Lt(AbsNum(Sub(frac, Card_fractions[i].v)), Rat(2, 100))}

Card_FirstHit(frac) ==
  CHOOSE j \in Card_FractionHits(frac) : \A h \in Card_FractionHits(frac) : j <= h

Card_formatQuantity(value) ==
  IF Card_FractionHits(Sub(value, MathFloor(value))) # {}
  THEN IF MathFloor(value) = IntNum(0)
       THEN <<Card_fractions[Card_FirstHit(Sub(value, MathFloor(value)))].g>>
       ELSE NumToStr(MathFloor(value))
              \o <<Card_fractions[Card_FirstHit(Sub(value, MathFloor(value)))].g>>
  ELSE IF Lt(value, IntNum(10)) /\ Sub(value, MathFloor(value)) # IntNum(0)
  THEN StripDotZero(toFixed1(value))
  ELSE NumToStr(MathRound(value))

Card_QuarterUnits ==
  {<<"t", "s", "p">>, <<"t", "e", "a", "s", "p", "o", "o", "n">>,
   <<"t", "b", "s", "p">>, <<"t", "a", "b", "l", "e", "s", "p", "o", "o", "n">>,
   <<"c", "u", "p">>, <<"c", "u", "p", "s">>}

Card_HalfUnits ==
  {<<"o", "z">>, <<"o", "u", "n", "c", "e">>, <<"o", "u", "n", "c", "e", "s">>}

Card_FiveUnits ==
  {<<"g">>, <<"g", "r", "a", "m">>, <<"g", "r", "a", "m", "s">>, <<"m", "l">>,
   <<"m", "i", "l", "l", "i", "l", "i", "t", "e", "r">>}

Card_CountUnits ==
  {<<"c", "l", "o", "v", "e">>, <<"c", "l", "o", "v", "e", "s">>,
   <<"p", "i", "e", "c", "e">>, <<"p", "i", "e", "c", "e", "s">>,
   <<"e", "g", "g">>, <<"e", "g", "g", "s">>,
   <<"s", "l", "i", "c", "e">>, <<"s", "l", "i", "c", "e", "s">>}

Card_roundToSensible(value, unit) ==
  IF toLowerCase(unit) \in Card_QuarterUnits
  THEN Div(MathRound(Mul(value, IntNum(4))), IntNum(4))
  ELSE IF toLowerCase(unit) \in Card_HalfUnits
  THEN Div(MathRound(Mul(value, IntNum(2))), IntNum(2))
  ELSE IF toLowerCase(unit) \in Card_FiveUnits
  THEN Mul(MathRound(Div(value, IntNum(5))), IntNum(5))
  ELSE IF toLowerCase(unit) \in Card_CountUnits
  THEN MathRound(value)
  ELSE Div(MathRound(Mul(value, IntNum(100))), IntNum(100))

\* servings is a string, undefined or null; the digits are not trimmed or
\* tested for NaN, which a run of digits never gives.
Card_parseServings(servings) ==
  IF ~Truthy(servings) THEN Null
  ELSE IF FirstDigitRun(servings.s) = <<>> THEN Null
  ELSE parseInt(FirstDigitRun(servings.s))

\* The scaling state of the component: recipe is the display recipe,
\* rawRecipe the recipe it was normalized from, target the state
\* targetServings (Null until a handler sets it).
Card_originalServings(recipe) == Card_parseServings(recipe.servings)

\* The callback of lines 102-108 on one raw ingredient.
Card_ItemScalable(ing) ==
  /\ ing.k # "str"
  /\ ScalingMode(ing) # Str(S_toTaste)
  /\ ScalingMode(ing) # Str(S_fixed)
  /\ ing.quantity # Undefined

Card_hasScalableIngredients(rawRecipe) ==
  \E i \in 1..Len(rawRecipe.ingredients.a) :
    Card_ItemScalable(rawRecipe.ingredients.a[i])

Card_canScale(recipe, rawRecipe) ==
  Card_originalServings(recipe) # Null /\ Card_hasScalableIngredients(rawRecipe)

\* targetServings ?? originalServings ?? 4
Card_effectiveTargetServings(recipe, target) ==
  IF target # Null THEN target
  ELSE IF Card_originalServings(recipe) # Null THEN Card_originalServings(recipe)
  ELSE IntNum(4)

Card_scaleFactor(recipe, rawRecipe, target) ==
  IF ~Card_canScale(recipe, rawRecipe) \/ Card_originalServings(recipe) = Null
  THEN IntNum(1)
  ELSE Div(Card_effectiveTargetServings(recipe, target), Card_originalServings(recipe))

Card_DisplayUnit(displayIng) ==
  IF Truthy(displayIng.unit) THEN displayIng.unit.s ELSE <<>>

Card_Unit(displayIng, rawIng) ==
  IF StructuredQuantity(rawIng.quantity) /\ Truthy(rawIng.quantity.unit)
  THEN rawIng.quantity.unit.s
  ELSE Card_DisplayUnit(displayIng)

Card_OriginalQtyNum(displayIng, rawIng) ==
  IF StructuredQuantity(rawIng.quantity) THEN rawIng.quantity.amount
  ELSE IF Truthy(displayIng.quantity) THEN Card_parseQuantity(displayIng.quantity)
  ELSE Null

Card_BaseResult(displayIng) ==
  [id |-> displayIng.id, name |-> displayIng.name, unit |-> displayIng.unit,
   scaledQty |-> Null,
   originalQty |-> IF Truthy(displayIng.quantity) THEN displayIng.quantity ELSE Null,
   isScaled |-> FALSE]

Card_ScaledResult(displayIng, rawIng, factor) ==
  [id |-> displayIng.id, name |-> displayIng.name,
   unit |-> Str(Card_Unit(displayIng, rawIng)),
   scaledQty |-> Str(Card_formatQuantity(Card_roundToSensible(
                   Mul(Card_OriginalQtyNum(displayIng, rawIng), factor),
                   Card_Unit(displayIng, rawIng)))),
   originalQty |-> IF Truthy(displayIng.quantity) THEN displayIng.quantity ELSE Null,
   isScaled |-> factor # IntNum(1)]

Card_ScaledIngredient(displayIng, rawIng, factor) ==
  IF rawIng.k = "str" \/ ~displayIng.isStructured THEN Card_BaseResult(displayIng)
  ELSE IF ScalingMode(rawIng) \in {Str(S_toTaste), Str(S_fixed)}
  THEN Card_BaseResult(displayIng)
  ELSE IF Card_OriginalQtyNum(displayIng, rawIng) = Null
  THEN Card_BaseResult(displayIng)
  ELSE Card_ScaledResult(displayIng, rawIng, factor)

Card_scaledIngredients(recipe, rawRecipe, factor) ==
  [i \in 1..Len(recipe.ingredients.a) |->
     Card_ScaledIngredient(recipe.ingredients.a[i], rawRecipe.ingredients.a[i],
                           factor)]

\* What the component computes on a render with the state target.
RecipeCard(recipe, rawRecipe, target) ==
  [canScale |-> Card_canScale(recipe, rawRecipe),
   originalServings |-> Card_originalServings(recipe),
   effectiveTargetServings |-> Card_effectiveTargetServings(recipe, target),
   scaleFactor |-> Card_scaleFactor(recipe, rawRecipe, target),
   isScaled |-> Card_scaleFactor(recipe, rawRecipe, target) # IntNum(1),
   scaledIngredients |-> Card_scaledIngredients(recipe, rawRecipe,
                           Card_scaleFactor(recipe, rawRecipe, target))]

(***************************************************************************)
(* Inputs of the component and of its helpers.                             *)
(***************************************************************************)
CardItem(quantity, unit, scaling) ==
  IngredientItem(quantity, unit, Undefined, scaling, Undefined, Undefined)

CardItems ==
  {Str(W_salt),
   CardItem(Undefined, Undefined, Undefined),
   CardItem(IntNum(2), Str(W_cups), Undefined),
   CardItem(IntNum(0), Undefined, Undefined),
   CardItem(Str(<<"1", "/", "2">>),
            Str(<<"t", "e", "a", "s", "p", "o", "o", "n", "s">>), Undefined),
   CardItem(Str(<<"1", "/", "0">>), Str(<<"g">>), Undefined),
   CardItem(Str(<<"a", "b", "c">>), Undefined, Undefined),
   CardItem(QuantityObject(IntNum(2), Str(<<"g">>)), Undefined, Undefined),
   CardItem(IntNum(2), Undefined, [mode |-> Str(S_toTaste)]),
   CardItem(IntNum(2), Undefined, [mode |-> Str(S_fixed)])}

CoreCardItems == {Str(W_salt), CardItem(IntNum(2), Str(W_cups), Undefined)}

CardServings ==
  {Undefined, Str(<<"v", "a", "r", "i", "e", "s">>), Str(<<"0">>),
   Str(<<"0", " ", "s", "e", "r", "v", "i", "n", "g", "s">>),
   Str(<<"4", " ", "s", "e", "r", "v", "i", "n", "g", "s">>)}

CardRecipes ==
  {[BaseRecipe EXCEPT !.servings = servings, !.ingredients = Arr(l)] :
     servings \in CardServings,
     l \in {<<item>> : item \in CardItems} \cup ListsOver(CoreCardItems, MaxItems)}

(***************************************************************************)
(* The component as a state machine.  arg holds the props <<recipe,        *)
(* rawRecipe>> (page.tsx passes the normalized recipe and the recipe it    *)
(* came from), targetState the state targetServings, pc the handler that   *)
(* ran last; Card is what the render that follows computes.  A behaviour   *)
(* may instead be one call of an inline helper, as for the library.        *)
(***************************************************************************)
Card == RecipeCard(arg[1], arg[2], targetState)

InitCard ==
  /\ ret = Pending
  /\ recipeStore = <<>>
  /\ inflight = <<>>
  /\ now = 0
  /\ targetState = Null
  /\ \/ /\ fn = "RecipeCard" /\ pc = "mount"
        /\ \E rawRecipe \in CardRecipes :
             arg = <<normalizeToDisplay(rawRecipe), rawRecipe>>
     \/ /\ fn = "RecipeCard.parseQuantity" /\ pc = "call"
        /\ \E qty \in QuantityInputs : arg = <<qty>>
     \/ /\ fn = "RecipeCard.formatQuantity" /\ pc = "call"
        /\ \E qty \in QuantityInputs :
             Card_parseQuantity(qty) # Null /\ arg = <<Card_parseQuantity(qty), qty>>
     \/ /\ fn = "RecipeCard.roundToSensible" /\ pc = "call"
        /\ \E value \in ValueInputs, unit \in UnitSpellings : arg = <<value, unit>>
     \/ /\ fn = "RecipeCard.parseServings" /\ pc = "call"
        /\ \E servings \in ServingsLabels : arg = <<servings>>

\* The model stops incrementing at MaxTarget.
handleIncrement ==
  /\ fn = "RecipeCard"
  /\ Lt(Card_effectiveTargetServings(arg[1], targetState), IntNum(MaxTarget))
  /\ targetState' = Add(Card_effectiveTargetServings(arg[1], targetState), IntNum(1))
  /\ pc' = "handleIncrement"
  /\ UNCHANGED <<fn, arg, ret, recipeStore, inflight, now>>

handleDecrement ==
  /\ fn = "RecipeCard"
  /\ targetState' = MathMax(IntNum(1),
                            Sub(Card_effectiveTargetServings(arg[1], targetState),
                                IntNum(1)))
  /\ pc' = "handleDecrement"
  /\ UNCHANGED <<fn, arg, ret, recipeStore, inflight, now>>

handleReset ==
  /\ fn = "RecipeCard"
  /\ targetState' = Null
  /\ pc' = "handleReset"
  /\ UNCHANGED <<fn, arg, ret, recipeStore, inflight, now>>

Call_Card_parseQuantity ==
  /\ fn = "RecipeCard.parseQuantity" /\ pc = "call"
  /\ ret' = Card_parseQuantity(arg[1])
  /\ pc' = "done"
  /\ UNCHANGED <<fn, arg, appVars>>

Call_Card_formatQuantity ==
  /\ fn = "RecipeCard.formatQuantity" /\ pc = "call"
  /\ ret' = Card_formatQuantity(arg[1])
  /\ pc' = "done"
  /\ UNCHANGED <<fn, arg, appVars>>

Call_Card_roundToSensible ==
  /\ fn = "RecipeCard.roundToSensible" /\ pc = "call"
  /\ ret' = Card_roundToSensible(arg[1], arg[2])
  /\ pc' = "done"
  /\ UNCHANGED <<fn, arg, appVars>>

Call_Card_parseServings ==
  /\ fn = "RecipeCard.parseServings" /\ pc = "call"
  /\ ret' = Card_parseServings(arg[1])
  /\ pc' = "done"
  /\ UNCHANGED <<fn, arg, appVars>>

NextCard ==
  \/ handleIncrement
  \/ handleDecrement
  \/ handleReset
  \/ Call_Card_parseQuantity
  \/ Call_Card_formatQuantity
  \/ Call_Card_roundToSensible
  \/ Call_Card_parseServings

SpecCard == InitCard /\ [][NextCard]_vars

\* C25 (as stated): when the servings text parses to 0, the scale factor
\* applied to the ingredients is 1 in every state reachable by the handlers,
\* and no ingredient quantity is displayed as NaN or Infinity.
ZeroServings == fn = "RecipeCard" /\ Card.originalServings = IntNum(0)

C25_Clamped ==
  ZeroServings =>
    /\ Card.scaleFactor = IntNum(1)
    /\ \A i \in 1..Len(Card.scaledIngredients) :
         Card.scaledIngredients[i].scaledQty
           \notin {Str(<<"N", "a", "N">>), Str(S_Infinity)}

\* '0 servings' with 2 cups of salt, after handleIncrement: the factor is
\* 1 / 0.
C25_Witness ==
  /\ ZeroServings /\ pc = "handleIncrement"
  /\ targetState = IntNum(1)
  /\ arg[2].ingredients = Arr(<<CardItem(IntNum(2), Str(W_cups), Undefined)>>)
  /\ Card.scaleFactor = Inf(1)
  /\ Card.scaledIngredients[1].scaledQty = Str(S_Infinity)

\* C29 (as stated): each inline helper returns what the library function of
\* the same name returns, for every input.
C29_Equivalent ==
  /\ Returned("RecipeCard.parseQuantity") => ret = parseQuantity(arg[1])
  /\ Returned("RecipeCard.formatQuantity") => ret = formatQuantity(arg[1])
  /\ Returned("RecipeCard.roundToSensible") => ret = roundToSensible(arg[1], arg[2])
  /\ Returned("RecipeCard.parseServings") => ret = parseServings(arg[1])

\* The inline parseQuantity was given '1/0' and returned Infinity.
C29_Witness ==
  /\ Returned("RecipeCard.parseQuantity")
  /\ arg[1] = Str(<<"1", "/", "0">>)
  /\ ret = Inf(1)
  /\ parseQuantity(arg[1]) = Null

(***************************************************************************)
(* The short-lived recipe store (src/app/api/store/route.ts).              *)
(*                                                                         *)
(* recipeStore is the Map of the module: a function from ids to entries    *)
(* [recipe, expires].  now is Date.now() in milliseconds.  The handler     *)
(* POST suspends once, at `await request.json()`: inflight is the bag of   *)
(* the request bodies whose POST has started and not yet resumed.  What    *)
(* follows the await, the whole of GET, and the cleanup callback run       *)
(* without suspending, so each is one step.  pc names the step that ran    *)
(* last, arg its request and ret its response.                             *)
(***************************************************************************)
TTL_MS == 10 * 60 * 1000

\* The clock advances in steps of half the time to live, MaxTicks times.
ClockStep == TTL_MS \div 2
MaxTicks == 3
MaxInflight == 1

\* A store whose entries never expire.
Expired_Never(entry, t) == FALSE

\* The test both the cleanup callback and GET apply to an entry.
Expired(entry, t) == entry.expires < t

\* recipeStore.set(id, entry) and recipeStore.delete(id)
MapSet(map, id, entry) ==
  [i \in DOMAIN map \cup {id} |-> IF i = id THEN entry ELSE map[i]]

MapDelete(map, id) == [i \in DOMAIN map \ {id} |-> map[i]]

\* The ids generateId() may return: what matters of the eight hexadecimal
\* digits is that two calls may or may not return the same id.
Ids == {Str(<<"a">>), Str(<<"b">>)}

\* The id parameter of a GET: an id, the empty string, or null when the
\* parameter is missing.
IdParams == Ids \cup {Str(<<>>), Null}

StoreRecipe(name, ingredients) ==
  [k |-> "obj", name |-> name, ingredients |-> ingredients]

ValidRecipes ==
  {StoreRecipe(Str(W_soup), Arr(<<>>)), StoreRecipe(Str(W_salt), Arr(<<Str(W_salt)>>))}

InvalidRecipes ==
  {Undefined, StoreRecipe(Undefined, Arr(<<>>)), StoreRecipe(Str(W_soup), Undefined)}

\* The bodies of POST requests; Throw is a body that is not JSON, for which
\* request.json() rejects.
Bodies ==
  {[k |-> "obj", recipe |-> recipe] : recipe \in ValidRecipes \cup InvalidRecipes}
    \cup {Throw}

\* !recipe?.name || !Array.isArray(recipe?.ingredients)
InvalidRecipe(recipe) ==
  \/ Nullish(recipe)
  \/ ~Truthy(recipe.name)
  \/ recipe.ingredients.k # "arr"

Response(status, body) == [status |-> status, body |-> body]

InitStore ==
  /\ fn = "api/store"
  /\ pc = "listen"
  /\ arg = <<>>
  /\ ret = Pending
  /\ targetState = Null
  /\ recipeStore = <<>>
  /\ inflight = EmptyBag
  /\ now = 0

\* A POST request arrives and waits for its body.
POST_await ==
  /\ fn = "api/store"
  /\ BagCardinality(inflight) < MaxInflight
  /\ \E body \in Bodies :
       /\ inflight' = inflight (+) SetToBag({body})
       /\ arg' = <<body>>
  /\ pc' = "POST_await"
  /\ ret' = Pending
  /\ UNCHANGED <<fn, targetState, recipeStore, now>>

\* The rest of POST, for one of the waiting requests.
POST ==
  /\ fn = "api/store"
  /\ \E body \in BagToSet(inflight), id \in Ids :
       /\ inflight' = inflight (-) SetToBag({body})
       /\ arg' = <<body>>
       /\ IF IsThrow(body)
          THEN /\ ret' = Response(500, [error |-> "Failed to store"])
               /\ UNCHANGED recipeStore
          ELSE IF InvalidRecipe(body.recipe)
          THEN /\ ret' = Response(400, [error |-> "Invalid recipe"])
               /\ UNCHANGED recipeStore
          ELSE /\ recipeStore' = MapSet(recipeStore, id,
                                   [recipe |-> body.recipe, expires |-> now + TTL_MS])
               /\ ret' = Response(200, [id |-> id, expiresIn |-> TTL_MS \div 1000])
  /\ pc' = "POST"
  /\ UNCHANGED <<fn, targetState, now>>

GET ==
  /\ fn = "api/store"
  /\ \E id \in IdParams :
       /\ arg' = <<id>>
       /\ IF ~Truthy(id)
          THEN /\ ret' = Response(400, [error |-> "Missing id"])
               /\ UNCHANGED recipeStore
          ELSE IF id \notin DOMAIN recipeStore \/ Expired(recipeStore[id], now)
          THEN /\ recipeStore' = MapDelete(recipeStore, id)
               /\ ret' = Response(404, [error |-> "Not found or expired"])
          ELSE /\ ret' = Response(200, [recipe |-> recipeStore[id].recipe])
               /\ UNCHANGED recipeStore
  /\ pc' = "GET"
  /\ UNCHANGED <<fn, targetState, inflight, now>>

\* The callback of setInterval.  The model lets it run at any time.
Cleanup ==
  /\ fn = "api/store"
  /\ recipeStore' = [id \in {i \in DOMAIN recipeStore : ~Expired(recipeStore[i], now)}
                       |-> recipeStore[id]]
  /\ pc' = "Cleanup"
  /\ arg' = <<>>
  /\ ret' = Pending
  /\ UNCHANGED <<fn, targetState, inflight, now>>

Tick ==
  /\ fn = "api/store"
  /\ now < MaxTicks * ClockStep
  /\ now' = now + ClockStep
  /\ pc' = "Tick"
  /\ arg' = <<>>
  /\ ret' = Pending
  /\ UNCHANGED <<fn, targetState, recipeStore, inflight>>

NextStore == POST_await \/ POST \/ GET \/ Cleanup \/ Tick

SpecStore == InitStore /\ [][NextStore]_vars

\* The entry of id is new or changed in this step.
Stored(id) ==
  /\ id \in DOMAIN recipeStore'
  /\ id \in DOMAIN recipeStore => recipeStore'[id] # recipeStore[id]

\* GET answers 200 only with the recipe stored under the id, not later than
\* its expiry.
GetServesStored ==
  (pc' = "GET" /\ ret'.status = 200) =>
    /\ arg'[1] \in DOMAIN recipeStore
    /\ ret'.body.recipe = recipeStore[arg'[1]].recipe
    /\ now <= recipeStore[arg'[1]].expires

\* An entry appears or changes only when a POST answers 200 with its id; it
\* holds the recipe of the request and expires TTL_MS after the step.
OnlyPostStores ==
  \A id \in Ids :
    Stored(id) =>
      /\ pc' = "POST"
      /\ ret' = Response(200, [id |-> id, expiresIn |-> 600])
      /\ arg'[1].recipe \in ValidRecipes
      /\ recipeStore'[id] = [recipe |-> arg'[1].recipe, expires |-> now + 600000]

\* A GET for an id that is unknown or expired answers 404 and leaves no
\* entry for the id.
GetUnknownOrExpired ==
  (/\ pc' = "GET"
   /\ arg'[1] \in Ids
   /\ \/ arg'[1] \notin DOMAIN recipeStore
      \/ recipeStore[arg'[1]].expires < now) =>
    /\ ret'.status = 404
    /\ arg'[1] \notin DOMAIN recipeStore'

\* A body whose recipe has no name or no array of ingredients is answered
\* 400, and a POST answered 400 leaves the store as it was.
PostRejected ==
  /\ (/\ pc' = "POST"
      /\ ~IsThrow(arg'[1])
      /\ arg'[1].recipe \in InvalidRecipes) => ret'.status = 400
  /\ (pc' = "POST" /\ ret'.status = 400) => recipeStore' = recipeStore

\* The cleanup removes the entries whose expiry is earlier than now and
\* nothing else, and changes no entry.
SweepOnlyExpired ==
  pc' = "Cleanup" =>
    /\ DOMAIN recipeStore' \subseteq DOMAIN recipeStore
    /\ \A id \in DOMAIN recipeStore :
         IF id \in DOMAIN recipeStore'
         THEN recipeStore'[id] = recipeStore[id]
         ELSE recipeStore[id].expires < now

\* C30: for every interleaving of POST requests, GET requests, the cleanup
\* and the passage of time: a GET returns a recipe only if a POST stored it
\* under that id and now is not later than its expiry (store time + 10
\* minutes); a GET for an unknown or expired id answers 404 and leaves no
\* entry for the id; a POST rejected as invalid leaves the store unchanged;
\* the cleanup removes only entries whose expiry is earlier than now.
C30_Store ==
  [][/\ GetServesStored
     /\ OnlyPostStores
     /\ GetUnknownOrExpired
     /\ PostRejected
     /\ SweepOnlyExpired]_vars

\* A GET served an entry at the very millisecond of its expiry, while
\* another POST was waiting for its body.
C30_Witness ==
  /\ fn = "api/store" /\ pc = "GET"
  /\ ret.status = 200
  /\ arg[1] \in DOMAIN recipeStore
  /\ recipeStore[arg[1]].expires = now
  /\ ret.body.recipe = recipeStore[arg[1]].recipe
  /\ inflight # EmptyBag
====
